---- MODULE Spec2Model ----
(***************************************************************************)
(* Model of the invite attribution, statistics, abuse detection and        *)
(* premium licence parts of the bot (src/bot/services/invite_tracker.py,   *)
(* security.py, premium.py, src/bot/utils/locks.py, premium.py).           *)
(*                                                                         *)
(* Several specifications share the module:                                *)
(*   SpecDetect   the pure function _detect_used_invite on bounded inputs  *)
(*   SpecLicense  concurrent PremiumService.activate_license transactions  *)
(*   SpecJoin     on_member_join in two guilds with the per-guild lock     *)
(*   SpecStats    joins, leaves and bonus adjustments in one guild         *)
(*   SpecWindow   the sliding-window counters of SecurityService           *)
(*   SpecLockdown set_lockdown commands issued one after another           *)
(*   SpecBot      the event handlers of the bot around a lockdown          *)
(*   SpecRejoin   joins of one guild interleaved with leaves               *)
(*   SpecGate     the premium-gated raid prediction                        *)
(*   SpecBlacklist the premium-gated cross-server blacklist check          *)
(*   SpecFraud    joins against a range of minimum account ages            *)
(*   SpecBonus    concurrent bonus adjustments and a join of one guild     *)
(*   SpecChecks   the security checks that follow a join                   *)
(*   SpecLinks    link messages handled one after the other                *)
(*   SpecStartup  on_ready's pass over the guilds with events arriving     *)
(*   SpecUnlock   two lockdown commands with a channel being created       *)
(*   SpecExpiry   the window keys and their time to live, in seconds       *)
(*   SpecRelock   three lockdown commands and an administrator's edit      *)
(*   SpecRollback joins of one guild interleaved with an invite event      *)
(*   SpecDenied   a join whose listing of the invites may be refused       *)
(*   SpecEnsure   ensure_guild_row on rows with settings of their own      *)
(*   SpecLapse    the premium features after the licence's expiry          *)
(*   SpecGuard    an invite created while lockdown commands run            *)
(*   SpecFail     joins of one guild whose calls may raise (SpecFailFair:  *)
(*                the same under the event loop's fairness)                *)
(* Each specification leaves the other parts' variables at their initial   *)
(* value.                                                                  *)
(***************************************************************************)
EXTENDS Integers, Sequences, FiniteSets, TLC

\* ------------------------------------------------------------------------
\* Bounds of the model (not program constants)
\* ------------------------------------------------------------------------
\* Largest number of invite codes in a snapshot with unrestricted use counts.
MaxCodes == 3
\* Largest use count drawn for those snapshots.
MaxUses == 2
\* Largest number of codes in the wide snapshots (use counts 0 or 1), which
\* reach the confidence floor of the multi-candidate rule.
MaxWide == 6
\* Number of activate_license calls issued in a run of SpecLicense.
MaxCalls == 3
\* Largest max_guilds drawn for the licence.
MaxGuildsCap == 2
\* Last tick of the clock.
MaxTime == 2
\* Number of member-join events delivered in a run.
MaxJoins == 2
\* Number of member-leave events delivered in a run.
MaxLeaves == 1
\* Number of add_bonus_invites calls in a run of SpecStats.
MaxBonus == 1
\* Number of add_bonus_invites calls in a run of SpecBonus.
MaxAdjustments == 2
\* Number of events (joins, leaves, bonus calls) in a run of SpecStats.
MaxEvents == 3
\* Number of record-and-count calls in a run of SpecWindow.
MaxRecords == 3
\* Largest window (in clock ticks) drawn for a sliding-window counter.
MaxWindow == 2
\* Last clock time (in seconds) of a run that lets window keys expire.
MaxClock == 121
\* Number of set_lockdown commands in a run.
MaxCommands == 2
\* invite_create / invite_delete events of a run
MaxInvites == 1
\* advanced_raid_prediction calls of a run
MaxPredictions == 2
\* Incidents of one guild written within the last hour
MaxIncidents == 4

\* Python's None / SQL NULL, for fields that otherwise hold an id, a code or a
\* time (all of which are positive in the model).
None == -1

Max(a, b) == IF a >= b THEN a ELSE b

\* ------------------------------------------------------------------------
\* Variables
\* ------------------------------------------------------------------------
VARIABLES
    det_previous,   \* _detect_used_invite: the snapshot read from the cache
    det_current,    \* _detect_used_invite: the live invites, in iteration order
    det_result,     \* _detect_used_invite: the InviteAttribution returned
    det_done,       \* whether _detect_used_invite has returned
    now,            \* the clock: datetime.now(timezone.utc) / SQL NOW()
    premium_licenses, \* table premium_licenses: licence id -> row
    lic_lock,       \* licence id -> the call whose transaction holds its row lock
    guilds,         \* table guilds: guild id -> settings row
    incidents,      \* table incidents, in insertion order
    act,            \* activate_license calls: call id -> frame
    lock_holder,    \* GuildLockManager: lock key -> join task holding the lock
    lock_waiters,   \* GuildLockManager: lock key -> join tasks waiting, in order
    locks,          \* GuildLockManager._locks: the keys created, in creation order
    platform,       \* the platform's invites: guild -> (code -> use count)
    snapshot,       \* the cache: guild -> invite snapshot (code -> entry)
    jt,             \* on_member_join invocations: task -> frame
    lt,             \* on_member_remove invocations: task -> frame
    bt,             \* add_bonus_invites invocations: task -> frame
    users,          \* table users: the user ids upserted
    invite_joins,   \* table invite_joins, in insertion order
    invite_leaves,  \* table invite_leaves, in insertion order
    user_invite_stats, \* table user_invite_stats: <<guild, user>> -> row
    invites,        \* table invites: <<guild, code>> -> row
    fraud_flags,    \* table fraud_flags, in insertion order
    bonus_invites,  \* table bonus_invites, in insertion order
    zsets,          \* the cache's sorted sets: window key -> scores stored
    ttl,            \* the cache's sorted sets: window key -> time the key expires
    wt,             \* check_join_burst / handle_link_spam invocations: task -> frame
    timed_out,      \* the platform's timeouts: the <<guild, member>> timed out
    channels,       \* the platform's text channels: guild -> (channel -> slowmode_delay)
    slowmode_backup, \* the cache: guild -> the slowmode backup stored for it
    lk,             \* set_lockdown invocations: task -> frame
    it,             \* on_invite_create / on_invite_delete invocations: task -> frame
    quarantined,    \* the platform's roles: the <<guild, member>> given the quarantine role
    kicked,         \* the platform's members: the <<guild, member>> kicked
    rp,             \* advanced_raid_prediction invocations: task -> frame
    ready           \* on_ready's pass over self.guilds: guilds left and position

detVars == <<det_previous, det_current, det_result, det_done>>

licVars == <<now, premium_licenses, lic_lock, guilds, incidents, act>>

lockVars == <<lock_holder, lock_waiters, locks>>

tblVars == <<users, invite_joins, invite_leaves, user_invite_stats, invites,
             fraud_flags, bonus_invites>>

trkVars == <<lock_holder, lock_waiters, locks, platform, snapshot, jt, lt, bt,
             users, invite_joins, invite_leaves, user_invite_stats, invites,
             fraud_flags, bonus_invites>>

winVars == <<zsets, ttl, wt, timed_out>>

lkVars == <<channels, slowmode_backup, lk>>

secVars == <<zsets, ttl, wt, timed_out, channels, slowmode_backup, lk>>

botVars == <<it, quarantined, kicked, rp, ready>>

vars == <<det_previous, det_current, det_result, det_done,
          now, premium_licenses, lic_lock, guilds, incidents, act,
          lock_holder, lock_waiters, locks, platform, snapshot, jt, lt, bt,
          users, invite_joins, invite_leaves, user_invite_stats, invites,
          fraud_flags, bonus_invites, zsets, ttl, wt, timed_out,
          channels, slowmode_backup, lk, it, quarantined, kicked, rp, ready>>

\* ------------------------------------------------------------------------
\* InviteTrackerService._detect_used_invite
\*
\* A snapshot read back from the cache (`previous`) is a dict code -> entry:
\* a function from a finite set of codes to records.  `current` is the dict
\* built by _fetch_current_invites; Python dicts iterate in insertion order,
\* so it is a sequence of records [code, uses, inviter_id] with distinct
\* codes.  Confidence is a float with two decimals in the source; the model
\* carries it in hundredths (0.96 -> 96).  The doubles the source computes
\* for max(0.45, 0.75 - (n-1)*0.08) equal the two-decimal literals
\* 0.67, 0.59, 0.51, 0.45 exactly, so the scaling loses nothing.
\* ------------------------------------------------------------------------
\* The value of a result slot before the function has returned.
NotRun == [invite_code |-> None, inviter_id |-> None, confidence |-> 0, reason |-> "not_run"]

\* dataclass InviteAttribution
InviteAttribution(code, inviter, conf, reason) ==
    [invite_code |-> code, inviter_id |-> inviter,
     confidence |-> conf, reason |-> reason]

\* Mutant of OldUses: the previous snapshot ignored, every code counted as new.
OldUsesZero(previous, code) == 0

\* previous.get(code, {}).get("uses", 0)
OldUses(previous, code) ==
    IF code \in DOMAIN previous THEN previous[code].uses ELSE 0

\* Mutant of Increased: a code the previous snapshot lacks is no candidate.
Increased_known_only(previous, current) ==
    LET F[i \in 0..Len(current)] ==
            IF i = 0 THEN <<>>
            ELSE LET now_val == current[i]
                     delta == now_val.uses - OldUses(previous, now_val.code)
                 IN IF delta > 0 /\ now_val.code \in DOMAIN previous
                    THEN Append(F[i-1], [code |-> now_val.code, delta |-> delta,
                                         inviter_id |-> now_val.inviter_id])
                    ELSE F[i-1]
    IN F[Len(current)]

\* The loop of lines 167-172: the candidates, in iteration order of `current`.
\* `previous` is the value of line 165, cache.get_json(key) or {}: a key that
\* is absent (get_json returns None) and a stored empty dict both give the
\* dict without keys.
Increased(previous, current) ==
    LET F[i \in 0..Len(current)] ==
            IF i = 0 THEN <<>>
            ELSE LET now_val == current[i]
                     delta == now_val.uses - OldUses(previous, now_val.code)
                 IN IF delta > 0
                    THEN Append(F[i-1], [code |-> now_val.code, delta |-> delta,
                                         inviter_id |-> now_val.inviter_id])
                    ELSE F[i-1]
    IN F[Len(current)]

\* list.sort(key=delta, reverse=True): Python's sort is stable, also with
\* reverse=True, so candidates of equal delta keep their encounter order.
\* InsertDesc puts x behind every element whose delta is >= x.delta.
InsertDesc(s, x) ==
    LET k == Cardinality({i \in 1..Len(s) : s[i].delta >= x.delta})
    IN SubSeq(s, 1, k) \o <<x>> \o SubSeq(s, k + 1, Len(s))

RECURSIVE SortDesc(_)
SortDesc(s) ==
    IF s = <<>> THEN <<>>
    ELSE InsertDesc(SortDesc(SubSeq(s, 1, Len(s) - 1)), s[Len(s)])

\* Mutant of MultiConfidence: the floor forgotten.
MultiConfidenceNoFloor(n) == 75 - ((n - 1) * 8)

\* max(0.45, 0.75 - ((len(increased) - 1) * 0.08)), in hundredths
MultiConfidence(n) == Max(45, 75 - ((n - 1) * 8))

\* Mutant of Winner: an unstable (ascending) choice, the last of the sort.
WinnerLast(increased) == SortDesc(increased)[Len(increased)]

\* increased.sort(...); winner = increased[0]
Winner(increased) == SortDesc(increased)[1]

\* Mutant of detect_used_invite: a single candidate treated like several.
detect_used_invite_no_single(previous, current) ==
    LET increased == Increased(previous, current)
    IN IF increased = <<>>
       THEN InviteAttribution(None, None, 20, "no_invite_delta")
       ELSE InviteAttribution(Winner(increased).code, Winner(increased).inviter_id,
                              MultiConfidence(Len(increased)), "multi_delta")

detect_used_invite(previous, current) ==
    LET increased == Increased(previous, current)
    IN IF increased = <<>>
       THEN InviteAttribution(None, None, 20, "no_invite_delta")
       ELSE IF Len(increased) = 1
       THEN InviteAttribution(Winner(increased).code, Winner(increased).inviter_id,
                              96, "single_delta")
       ELSE InviteAttribution(Winner(increased).code, Winner(increased).inviter_id,
                              MultiConfidence(Len(increased)), "multi_delta")

\* ------------------------------------------------------------------------
\* SpecDetect: _detect_used_invite applied to every bounded snapshot pair
\* ------------------------------------------------------------------------
\* The inviter recorded for a code (inv.inviter.id if inv.inviter else None):
\* code 3 was created without an inviter, code c otherwise by user 10 + c.
InviterOf(c) == CASE c = 3 -> None [] c = 4 -> 12 [] OTHER -> 10 + c

SnapshotEntry(c, u) == [code |-> c, uses |-> u, inviter_id |-> InviterOf(c)]

\* Live invite lists of n codes, in iteration order 1..n.
CurrentInputs(n, U) ==
    {[i \in 1..n |-> SnapshotEntry(i, u[i])] : u \in [1..n -> U]}

\* Cached snapshots over a subset of the codes 1..n.
PreviousInputs(n, U) ==
    UNION {{[c \in S |-> [uses |-> u[c], inviter_id |-> InviterOf(c)]] :
               u \in [S -> U]} : S \in SUBSET (1..n)}

DetectInit ==
    /\ det_result = NotRun
    /\ det_done = FALSE
    /\ \/ /\ det_current \in UNION {CurrentInputs(n, 0..MaxUses) : n \in 0..MaxCodes}
          /\ det_previous \in PreviousInputs(MaxCodes, 0..MaxUses)
       \/ /\ det_current \in UNION {CurrentInputs(n, 0..1) : n \in 0..MaxWide}
          /\ det_previous \in PreviousInputs(MaxWide, {1})

DetectIdle ==
    /\ det_result = NotRun
    /\ det_done = FALSE
    /\ det_current = <<>>
    /\ det_previous = <<>>

\* attribution = await self._detect_used_invite(guild, current)
Detect ==
    /\ ~det_done
    /\ det_result' = detect_used_invite(det_previous, det_current)
    /\ det_done' = TRUE
    /\ UNCHANGED <<det_previous, det_current>>
    /\ UNCHANGED licVars
    /\ UNCHANGED trkVars
    /\ UNCHANGED secVars
    /\ UNCHANGED botVars

\* ------------------------------------------------------------------------
\* PremiumService.activate_license
\*
\* One licence row exists; its key is stored as the SHA-256 of the raw key.
\* A call runs in its own transaction: SELECT ... FOR UPDATE takes the row
\* lock of the licence (waiting while another transaction holds it) and reads
\* the committed row; the checks of lines 44-53 follow without suspension;
\* the writes of lines 55-90 become visible together when the transaction
\* commits on leaving the `async with` block, which also releases the lock.
\* ------------------------------------------------------------------------
Guilds == {1, 2, 3}
LicenseIds == {1}
Keys == {"good", "bogus"}
Calls == 1..MaxCalls

\* hashlib.sha256(key.encode("utf-8")).hexdigest(): injective on the keys used
hash_key(raw_key) == <<"sha256", raw_key>>

\* interaction.user.id of the administrator issuing the command in guild g
AdminOf(g) == 20 + g

\* The defaults of Settings (config.py, lines 57-63)
default_join_burst_count == 7
default_join_burst_window_seconds == 10
default_min_account_age_hours == 72
default_link_spam_threshold == 3
default_link_spam_window_seconds == 30
default_lockdown_slowmode_seconds == 15
default_auto_kick_young_accounts == FALSE
default_quarantine_role_name == "Quarantine"

\* The values the guilds table gives the columns ensure_guild_row does not
\* name (the table definition is not part of the sources; a community is not
\* premium until a licence is activated for it and is not locked down until
\* set_lockdown enables it).
GuildColumnDefaults ==
    [is_premium |-> FALSE, premium_license_id |-> None, premium_until |-> None,
     lockdown_enabled |-> FALSE, security_log_channel_id |-> None]

\* The names a guild has on the platform: every guild is called "Alpha" when
\* a run begins and may be renamed.
GuildNames == {"Alpha", "Beta"}

FirstName == "Alpha"

\* A guild without a settings row.
NoGuildRow ==
    [exists |-> FALSE, min_account_age_hours |-> None, is_premium |-> FALSE,
     premium_license_id |-> None, premium_until |-> None,
     lockdown_enabled |-> FALSE, lockdown_slowmode_seconds |-> None,
     join_burst_count |-> None, join_burst_window_seconds |-> None,
     link_spam_threshold |-> None, link_spam_window_seconds |-> None,
     auto_kick_young_accounts |-> FALSE, quarantine_role_name |-> "",
     guild_name |-> "", security_log_channel_id |-> None]

\* The row ensure_guild_row inserts: the settings it names come from the
\* defaults of Settings, the other columns take the column defaults.
NewGuildRow ==
    [exists |-> TRUE, min_account_age_hours |-> default_min_account_age_hours,
     is_premium |-> GuildColumnDefaults.is_premium,
     premium_license_id |-> GuildColumnDefaults.premium_license_id,
     premium_until |-> GuildColumnDefaults.premium_until,
     lockdown_enabled |-> GuildColumnDefaults.lockdown_enabled,
     lockdown_slowmode_seconds |-> default_lockdown_slowmode_seconds,
     join_burst_count |-> default_join_burst_count,
     join_burst_window_seconds |-> default_join_burst_window_seconds,
     link_spam_threshold |-> default_link_spam_threshold,
     link_spam_window_seconds |-> default_link_spam_window_seconds,
     auto_kick_young_accounts |-> default_auto_kick_young_accounts,
     quarantine_role_name |-> default_quarantine_role_name,
     guild_name |-> FirstName,
     security_log_channel_id |-> GuildColumnDefaults.security_log_channel_id]

\* Mutant of ensure_guild_row: the conflict branch sets every column of the
\* INSERT to the value it names.
ensure_guild_row_reset(tbl, g, name) ==
    [tbl EXCEPT ![g] =
        IF tbl[g].exists
        THEN [NewGuildRow EXCEPT !.guild_name = name,
                                 !.is_premium = tbl[g].is_premium,
                                 !.premium_license_id = tbl[g].premium_license_id,
                                 !.premium_until = tbl[g].premium_until,
                                 !.lockdown_enabled = tbl[g].lockdown_enabled,
                                 !.security_log_channel_id = tbl[g].security_log_channel_id]
        ELSE [NewGuildRow EXCEPT !.guild_name = name]]

\* ensure_guild_row, lines 43-72: INSERT INTO guilds (guild_id, guild_name and
\* the settings with the defaults of Settings) ON CONFLICT (guild_id) DO
\* UPDATE SET guild_name = EXCLUDED.guild_name, updated_at = NOW()
ensure_guild_row(tbl, g, name) ==
    [tbl EXCEPT ![g] =
        IF tbl[g].exists
        THEN [tbl[g] EXCEPT !.guild_name = name]
        ELSE [NewGuildRow EXCEPT !.guild_name = name]]

\* A call that has not been issued.
IdleCall ==
    [pc |-> "idle", guild_id |-> None, raw_key |-> "", actor_id |-> None,
     lic |-> None, expires |-> None, activated |-> <<>>, ok |-> FALSE,
     result |-> FALSE]

InSeq(x, s) == \E i \in 1..Len(s) : s[i] = x

\* WHERE key_hash = $1
LicenseFor(key_hash) ==
    {l \in LicenseIds : premium_licenses[l].key_hash = key_hash}

\* Mutant of RowLockFree: a plain SELECT, which never waits for the row lock.
RowLockIgnored(l) == TRUE

\* FOR UPDATE: the statement returns only once no other transaction holds
\* the row lock.
RowLockFree(l) == lic_lock[l] = None

\* Mutant of Expired: the expiry check left out.
ExpiredNever(expires, t) == FALSE

\* expires and expires < datetime.now(timezone.utc)
Expired(expires, t) == expires # None /\ expires < t

\* Mutant of CapacityExhausted: the capacity check applied to every guild,
\* already activated or not.
CapacityExhaustedAlways(guild_id, activated, max_guilds) ==
    Len(activated) >= max_guilds

\* guild_id not in activated and len(activated) >= lic["max_guilds"]
CapacityExhausted(guild_id, activated, max_guilds) ==
    ~InSeq(guild_id, activated) /\ Len(activated) >= max_guilds

\* Lines 44-53 on the row just read: whether the call goes on to its writes.
ChecksPass(row, guild_id, t) ==
    /\ row.is_active
    /\ ~Expired(row.expires_at, t)
    /\ ~CapacityExhausted(guild_id, row.activated_guild_ids, row.max_guilds)

LicenseInit ==
    /\ now = 1
    /\ premium_licenses \in
          [LicenseIds -> [key_hash : {hash_key("good")},
                          is_active : BOOLEAN,
                          max_guilds : 1..MaxGuildsCap,
                          expires_at : {None, 1},
                          activated_guild_ids : {<<>>}]]
    /\ lic_lock = [l \in LicenseIds |-> None]
    /\ guilds = [g \in Guilds |-> IF g = 3 THEN NoGuildRow ELSE NewGuildRow]
    /\ incidents = <<>>
    /\ act = [c \in Calls |-> IdleCall]

LicenseIdle ==
    /\ now = 1
    /\ premium_licenses =
          [l \in LicenseIds |->
              [key_hash |-> hash_key("good"), is_active |-> TRUE, max_guilds |-> 1,
               expires_at |-> None, activated_guild_ids |-> <<>>]]
    /\ lic_lock = [l \in LicenseIds |-> None]
    /\ incidents = <<>>
    /\ act = [c \in Calls |-> IdleCall]

\* The clock advances by d seconds; the cache drops the window keys whose
\* time to live has passed.
Advance(d) ==
    /\ now' = now + d
    /\ zsets' = [k \in {x \in DOMAIN zsets : now + d < ttl[x]} |-> zsets[k]]
    /\ ttl' = [k \in {x \in DOMAIN zsets : now + d < ttl[x]} |-> ttl[k]]
    /\ UNCHANGED <<premium_licenses, lic_lock, guilds, incidents, act>>
    /\ UNCHANGED detVars
    /\ UNCHANGED <<wt, timed_out, channels, slowmode_backup, lk>>
    /\ UNCHANGED trkVars
    /\ UNCHANGED botVars

\* The clock advances.
Tick ==
    /\ now < MaxTime
    /\ Advance(1)

\* on_guild_join -> ensure_guild_row: INSERT ... ON CONFLICT DO UPDATE of the
\* name only, so an existing row keeps its premium columns.
EnsureGuildRow(g) ==
    /\ ~guilds[g].exists
    /\ guilds' = ensure_guild_row(guilds, g, FirstName)
    /\ UNCHANGED <<now, premium_licenses, lic_lock, incidents, act>>
    /\ UNCHANGED detVars
    /\ UNCHANGED secVars
    /\ UNCHANGED trkVars
    /\ UNCHANGED botVars

\* /premium activate: activate_license(guild_id, raw_key, actor_id) is entered
\* (lines 27-31).  Call ids are handed out in the order of the calls.  A call
\* with an unknown key returns before it uses guild_id (line 44), so such
\* calls are drawn from one guild only.
ActivateCall(c, g, k) ==
    /\ act[c].pc = "idle"
    /\ k = "bogus" => g = 1
    /\ \A d \in Calls : d < c => act[d].pc # "idle"
    /\ act' = [act EXCEPT ![c] = [IdleCall EXCEPT !.pc = "begin", !.guild_id = g,
                                     !.raw_key = k, !.actor_id = AdminOf(g)]]
    /\ UNCHANGED <<now, premium_licenses, lic_lock, guilds, incidents>>
    /\ UNCHANGED detVars
    /\ UNCHANGED secVars
    /\ UNCHANGED trkVars
    /\ UNCHANGED botVars

\* Lines 32-53: the SELECT ... FOR UPDATE and the checks on its row.  With
\* no matching row nothing is locked and the call returns False.
ActivateSelect(c) ==
    /\ act[c].pc = "begin"
    /\ IF LicenseFor(hash_key(act[c].raw_key)) = {}
       THEN /\ act' = [act EXCEPT ![c].pc = "done", ![c].result = FALSE]
            /\ UNCHANGED lic_lock
       ELSE \E l \in LicenseFor(hash_key(act[c].raw_key)) :
            /\ RowLockFree(l)
            /\ lic_lock' = [lic_lock EXCEPT ![l] = c]
            /\ act' = [act EXCEPT
                  ![c].pc = "intx",
                  ![c].lic = l,
                  ![c].expires = premium_licenses[l].expires_at,
                  ![c].activated = premium_licenses[l].activated_guild_ids,
                  ![c].ok = ChecksPass(premium_licenses[l], act[c].guild_id, now)]
    /\ UNCHANGED <<now, premium_licenses, guilds, incidents>>
    /\ UNCHANGED detVars
    /\ UNCHANGED secVars
    /\ UNCHANGED trkVars
    /\ UNCHANGED botVars

\* Lines 55-92 and the commit: the licence list is rewritten from the local
\* copy when the guild was appended to it, the guild's row (if any) gets the
\* premium columns, one incident is inserted (created_at takes the time of
\* the insert); then the lock is released and the call returns.  A call
\* whose checks failed commits nothing.
ActivateCommit(c) ==
    /\ act[c].pc = "intx"
    /\ LET l == act[c].lic
           g == act[c].guild_id
           activated == IF InSeq(g, act[c].activated)
                        THEN act[c].activated
                        ELSE Append(act[c].activated, g)
       IN /\ lic_lock' = [lic_lock EXCEPT ![l] = None]
          /\ act' = [act EXCEPT ![c].pc = "done", ![c].result = act[c].ok]
          /\ IF act[c].ok
             THEN /\ premium_licenses' =
                        IF InSeq(g, act[c].activated) THEN premium_licenses
                        ELSE [premium_licenses EXCEPT ![l].activated_guild_ids = activated]
                  /\ guilds' =
                        IF guilds[g].exists
                        THEN [guilds EXCEPT ![g].is_premium = TRUE,
                                            ![g].premium_license_id = l,
                                            ![g].premium_until = act[c].expires]
                        ELSE guilds
                  /\ incidents' = Append(incidents,
                        [guild_id |-> g, incident_type |-> "premium_activated",
                         severity |-> "low", actor_id |-> act[c].actor_id,
                         created_at |-> now])
             ELSE UNCHANGED <<premium_licenses, guilds, incidents>>
    /\ UNCHANGED now
    /\ UNCHANGED detVars
    /\ UNCHANGED secVars
    /\ UNCHANGED trkVars
    /\ UNCHANGED botVars

\* ------------------------------------------------------------------------
\* GuildLockManager and the event handlers of InviteTrackerService
\*
\* Every `await` of a handler is a step of its task.  asyncio.Lock is fair:
\* acquire() takes a free lock at once only when nobody waits for it, and
\* release() passes the lock to the first waiter.
\* ------------------------------------------------------------------------
JoinTasks == 1..MaxJoins
LeaveTasks == 1..MaxLeaves
BonusTasks == 1..MaxAdjustments

\* The invite codes of each guild that exist on the platform.
CodesOf(g) == CASE g = 1 -> {1, 3} [] g = 2 -> {2} [] OTHER -> {}

AllCodes == {1, 2, 3, 4}

\* The code of the invite a member of guild g creates during a run.
CreatableCodes(g) == IF g = 1 THEN {4} ELSE {}

\* The members that join and leave, and the users whose counters are kept.
Members == {31, 32}
StatUsers == {11, 12}

\* A third member, who joins in the runs on fraud scores.
FraudMembers == {31, 32, 33}

\* (now - member.created_at) in whole hours: member 31 has a young account.
AgeHours(m) == CASE m = 31 -> 10 [] m = 33 -> 27 [] OTHER -> 100

\* Bonus amounts an administrator passes.
BonusAmounts == {-1, 0, 1}

\* Mutant of lock_manager_get: one lock for all guilds.
lock_manager_get_global(guild_id) == 1

\* GuildLockManager.get: self._locks[guild_id], one lock per guild id
lock_manager_get(guild_id) == guild_id

\* Mutant of LockIsFree: acquire() never waits.
LockIsFreeAlways(k) == TRUE

\* asyncio.Lock.acquire takes the lock without waiting
LockIsFree(k) == lock_holder[k] = None /\ lock_waiters[k] = <<>>

\* The codes of a set in ascending order: the order in which the platform
\* lists a guild's invites.
RECURSIVE CodeSeq(_)
CodeSeq(S) ==
    IF S = {} THEN <<>>
    ELSE LET c == CHOOSE x \in S : \A y \in S : x <= y
         IN <<c>> \o CodeSeq(S \ {c})

\* _fetch_current_invites: the dict built from guild.invites()
fetch_current_invites(g) ==
    LET cs == CodeSeq(DOMAIN platform[g])
    IN [i \in 1..Len(cs) |-> [code |-> cs[i], uses |-> platform[g][cs[i]],
                              inviter_id |-> InviterOf(cs[i])]]

\* cache.set_json followed by cache.get_json: the dict code -> entry (JSON
\* keeps the string keys, the integers and null; the order is not used by
\* the reader)
SnapshotOf(current) ==
    [c \in {current[i].code : i \in 1..Len(current)} |->
        LET i == CHOOSE j \in 1..Len(current) : current[j].code = c
        IN [uses |-> current[i].uses, inviter_id |-> current[i].inviter_id]]

IdleJoin ==
    [pc |-> "idle", guild |-> None, member |-> None, current |-> <<>>,
     attribution |-> NotRun, min_age |-> None, is_fake |-> FALSE, is_rejoin |-> FALSE,
     burst_now |-> None, window |-> None, threshold |-> None, count |-> None,
     burst |-> FALSE, auto_kick |-> FALSE, age_result |-> FALSE,
     blacklist_result |-> FALSE]

IdleLeave == [pc |-> "idle", guild |-> None, member |-> None, inviter_id |-> None]

IdleBonus == [pc |-> "idle", guild |-> None, user |-> None, amount |-> 0]

\* The values the user_invite_stats table gives the counters an INSERT does
\* not name (the table definition is not part of the sources; the counters
\* count events, so a new row starts them at zero).
StatsDefaults ==
    [total_invites |-> 0, fake_invites |-> 0, real_invites |-> 0,
     rejoins |-> 0, leaves |-> 0, bonus_invites |-> 0]

NoStatsRow ==
    [exists |-> FALSE, total_invites |-> 0, fake_invites |-> 0, real_invites |-> 0,
     rejoins |-> 0, leaves |-> 0, bonus_invites |-> 0]

NoInviteRow == [exists |-> FALSE, inviter_id |-> None, uses |-> 0, deleted |-> FALSE]

\* Mutant of update_invite_stats: every join counted as real, fake or not.
update_invite_stats_real_always(tbl, guild_id, inviter_id, is_fake, is_rejoin) ==
    LET old == tbl[<<guild_id, inviter_id>>]
        fake == IF is_fake THEN 1 ELSE 0
        rejoin == IF is_rejoin THEN 1 ELSE 0
    IN [tbl EXCEPT ![<<guild_id, inviter_id>>] =
          IF old.exists
          THEN [old EXCEPT !.total_invites = @ + 1, !.fake_invites = @ + fake,
                           !.real_invites = @ + 1, !.rejoins = @ + rejoin]
          ELSE [exists |-> TRUE, total_invites |-> 1, fake_invites |-> fake,
                real_invites |-> 1, rejoins |-> rejoin,
                leaves |-> StatsDefaults.leaves,
                bonus_invites |-> StatsDefaults.bonus_invites]]

\* Mutant of update_invite_stats: every join counted as a rejoin.
update_invite_stats_rejoin_always(tbl, guild_id, inviter_id, is_fake, is_rejoin) ==
    LET old == tbl[<<guild_id, inviter_id>>]
        fake == IF is_fake THEN 1 ELSE 0
        real == IF is_fake THEN 0 ELSE 1
    IN [tbl EXCEPT ![<<guild_id, inviter_id>>] =
          IF old.exists
          THEN [old EXCEPT !.total_invites = @ + 1, !.fake_invites = @ + fake,
                           !.real_invites = @ + real, !.rejoins = @ + 1]
          ELSE [exists |-> TRUE, total_invites |-> 1, fake_invites |-> fake,
                real_invites |-> real, rejoins |-> 1,
                leaves |-> StatsDefaults.leaves,
                bonus_invites |-> StatsDefaults.bonus_invites]]

\* _update_invite_stats: INSERT (total 1, fake $3, real $4, rejoins $5)
\* ON CONFLICT DO UPDATE adding the same amounts
update_invite_stats(tbl, guild_id, inviter_id, is_fake, is_rejoin) ==
    LET old == tbl[<<guild_id, inviter_id>>]
        fake == IF is_fake THEN 1 ELSE 0
        real == IF is_fake THEN 0 ELSE 1
        rejoin == IF is_rejoin THEN 1 ELSE 0
    IN [tbl EXCEPT ![<<guild_id, inviter_id>>] =
          IF old.exists
          THEN [old EXCEPT !.total_invites = @ + 1, !.fake_invites = @ + fake,
                           !.real_invites = @ + real, !.rejoins = @ + rejoin]
          ELSE [exists |-> TRUE, total_invites |-> 1, fake_invites |-> fake,
                real_invites |-> real, rejoins |-> rejoin,
                leaves |-> StatsDefaults.leaves,
                bonus_invites |-> StatsDefaults.bonus_invites]]

\* Mutant of upsert_leaves: an existing row keeps its leaves counter.
upsert_leaves_new_only(tbl, guild_id, inviter_id) ==
    LET old == tbl[<<guild_id, inviter_id>>]
    IN [tbl EXCEPT ![<<guild_id, inviter_id>>] =
          IF old.exists THEN old
          ELSE [exists |-> TRUE, total_invites |-> StatsDefaults.total_invites,
                fake_invites |-> StatsDefaults.fake_invites,
                real_invites |-> StatsDefaults.real_invites,
                rejoins |-> StatsDefaults.rejoins,
                leaves |-> 1,
                bonus_invites |-> StatsDefaults.bonus_invites]]

\* on_member_remove: INSERT (leaves 1) ON CONFLICT DO UPDATE leaves + 1
upsert_leaves(tbl, guild_id, inviter_id) ==
    LET old == tbl[<<guild_id, inviter_id>>]
    IN [tbl EXCEPT ![<<guild_id, inviter_id>>] =
          IF old.exists
          THEN [old EXCEPT !.leaves = @ + 1]
          ELSE [exists |-> TRUE, total_invites |-> StatsDefaults.total_invites,
                fake_invites |-> StatsDefaults.fake_invites,
                real_invites |-> StatsDefaults.real_invites,
                rejoins |-> StatsDefaults.rejoins,
                leaves |-> 1,
                bonus_invites |-> StatsDefaults.bonus_invites]]

\* Mutant of upsert_bonus: the conflict branch overwrites the counter.
upsert_bonus_overwrite(tbl, guild_id, user_id, amount) ==
    [tbl EXCEPT ![<<guild_id, user_id>>] =
          [exists |-> TRUE,
           total_invites |-> tbl[<<guild_id, user_id>>].total_invites,
           fake_invites |-> tbl[<<guild_id, user_id>>].fake_invites,
           real_invites |-> tbl[<<guild_id, user_id>>].real_invites,
           rejoins |-> tbl[<<guild_id, user_id>>].rejoins,
           leaves |-> tbl[<<guild_id, user_id>>].leaves,
           bonus_invites |-> amount]]

\* add_bonus_invites: INSERT (bonus_invites $3) ON CONFLICT DO UPDATE + $3
upsert_bonus(tbl, guild_id, user_id, amount) ==
    LET old == tbl[<<guild_id, user_id>>]
    IN [tbl EXCEPT ![<<guild_id, user_id>>] =
          IF old.exists
          THEN [old EXCEPT !.bonus_invites = @ + amount]
          ELSE [exists |-> TRUE, total_invites |-> StatsDefaults.total_invites,
                fake_invites |-> StatsDefaults.fake_invites,
                real_invites |-> StatsDefaults.real_invites,
                rejoins |-> StatsDefaults.rejoins,
                leaves |-> StatsDefaults.leaves,
                bonus_invites |-> amount]]

\* round(min(1.0, (min_age - age_hours) / max(1.0, float(min_age))), 4), in
\* ten-thousandths
\* (Python rounds the double to the nearest ten-thousandth and an exact tie
\* to the even one; with whole hours and a minimum below 160 the quotient is
\* a tie only when it is a multiple of 1/32, which a double holds exactly.)
fraud_score(min_age, age_hours) ==
    LET den == Max(1, min_age)
        num == min_age - age_hours
        floor == (20000 * num) \div (2 * den)
        rest == (20000 * num) % (2 * den)
    IN IF num >= den THEN 10000
       ELSE IF rest < den THEN floor
       ELSE IF rest > den THEN floor + 1
       ELSE IF floor % 2 = 0 THEN floor ELSE floor + 1

TrackerInit ==
    /\ lock_holder = [g \in Guilds |-> None]
    /\ lock_waiters = [g \in Guilds |-> <<>>]
    /\ locks = <<>>
    /\ platform = [g \in Guilds |-> [c \in CodesOf(g) |-> 0]]
    /\ snapshot = [g \in Guilds |->
                      [c \in CodesOf(g) |-> [uses |-> 0, inviter_id |-> InviterOf(c)]]]
    /\ jt = [t \in JoinTasks |-> IdleJoin]
    /\ lt = [t \in LeaveTasks |-> IdleLeave]
    /\ bt = [t \in BonusTasks |-> IdleBonus]
    /\ users = {}
    /\ invite_joins = <<>>
    /\ invite_leaves = <<>>
    /\ user_invite_stats = [k \in Guilds \X StatUsers |-> NoStatsRow]
    /\ invites = [k \in Guilds \X AllCodes |-> NoInviteRow]
    /\ fraud_flags = <<>>
    /\ bonus_invites = <<>>

\* on_ready has run: every guild has its settings row.
GuildsReady == guilds = [g \in Guilds |-> NewGuildRow]

GuildsAbsent == guilds = [g \in Guilds |-> NoGuildRow]

\* A member joins guild g through invite code c (None: through no tracked
\* invite): the platform counts the use and the gateway delivers the event.
\* Task ids are handed out in the order of the events.
MemberJoins(t, g, m, c) ==
    /\ jt[t].pc = "idle"
    /\ \A d \in JoinTasks : d < t => jt[d].pc # "idle"
    /\ c \in DOMAIN platform[g] \cup {None}
    /\ platform' = IF c = None THEN platform
                   ELSE [platform EXCEPT ![g][c] = @ + 1]
    /\ jt' = [jt EXCEPT ![t] = [IdleJoin EXCEPT !.pc = "start", !.guild = g, !.member = m]]
    /\ UNCHANGED <<lock_holder, lock_waiters, locks, snapshot, lt, bt>>
    /\ UNCHANGED tblVars
    /\ UNCHANGED <<detVars, licVars>>
    /\ UNCHANGED secVars
    /\ UNCHANGED botVars

\* lock = self.lock_manager.get(member.guild.id); async with lock
JoinAcquire(t) ==
    /\ jt[t].pc = "start"
    /\ LET k == lock_manager_get(jt[t].guild)
       IN /\ locks' = IF InSeq(k, locks) THEN locks ELSE Append(locks, k)
          /\ IF LockIsFree(k)
             THEN /\ lock_holder' = [lock_holder EXCEPT ![k] = t]
                  /\ jt' = [jt EXCEPT ![t].pc = "ensure"]
                  /\ UNCHANGED lock_waiters
             ELSE /\ lock_waiters' = [lock_waiters EXCEPT ![k] = Append(@, t)]
                  /\ jt' = [jt EXCEPT ![t].pc = "waiting"]
                  /\ UNCHANGED lock_holder
    /\ UNCHANGED <<platform, snapshot, lt, bt>>
    /\ UNCHANGED tblVars
    /\ UNCHANGED <<detVars, licVars>>
    /\ UNCHANGED secVars
    /\ UNCHANGED botVars

\* A step of the locked section that moves task t to `nxt`; leaving the
\* section ("done") releases the lock, which passes to the first waiter.
StepTo(t, nxt) ==
    LET k == lock_manager_get(jt[t].guild)
    IN IF nxt # "done"
       THEN /\ jt' = [jt EXCEPT ![t].pc = nxt]
            /\ UNCHANGED lockVars
       ELSE IF lock_waiters[k] = <<>>
       THEN /\ jt' = [jt EXCEPT ![t].pc = "done"]
            /\ lock_holder' = [lock_holder EXCEPT ![k] = None]
            /\ UNCHANGED <<lock_waiters, locks>>
       ELSE /\ jt' = [jt EXCEPT ![t].pc = "done",
                                ![Head(lock_waiters[k])].pc = "ensure"]
            /\ lock_holder' = [lock_holder EXCEPT ![k] = Head(lock_waiters[k])]
            /\ lock_waiters' = [lock_waiters EXCEPT ![k] = Tail(@)]
            /\ UNCHANGED locks

\* The conditional writes that follow the insert of the join row.
AfterInvites_always_fraud(f) == "fraud"

AfterInvites(f) == IF f.is_fake THEN "fraud" ELSE "done"
AfterStats(f) == IF f.attribution.invite_code # None THEN "invites" ELSE AfterInvites(f)
AfterInsert(f) == IF f.attribution.inviter_id # None THEN "stats" ELSE AfterStats(f)

\* await self.ensure_guild_row(member.guild): an existing row keeps its
\* settings
JoinEnsure(t) ==
    /\ jt[t].pc = "ensure"
    /\ guilds' = ensure_guild_row(guilds, jt[t].guild, FirstName)
    /\ jt' = [jt EXCEPT ![t].pc = "upsert_user"]
    /\ UNCHANGED <<lock_holder, lock_waiters, locks, platform, snapshot, lt, bt>>
    /\ UNCHANGED tblVars
    /\ UNCHANGED <<detVars, now, premium_licenses, lic_lock, incidents, act>>
    /\ UNCHANGED secVars
    /\ UNCHANGED botVars

\* await self._upsert_user(member)
JoinUpsertUser(t) ==
    /\ jt[t].pc = "upsert_user"
    /\ users' = users \cup {jt[t].member}
    /\ jt' = [jt EXCEPT ![t].pc = "fetch"]
    /\ UNCHANGED <<lock_holder, lock_waiters, locks, platform, snapshot, lt, bt>>
    /\ UNCHANGED <<invite_joins, invite_leaves, user_invite_stats, invites,
                   fraud_flags, bonus_invites>>
    /\ UNCHANGED <<detVars, licVars>>
    /\ UNCHANGED secVars
    /\ UNCHANGED botVars

\* current = await self._fetch_current_invites(member.guild)
JoinFetch(t) ==
    /\ jt[t].pc = "fetch"
    /\ jt' = [jt EXCEPT ![t].pc = "detect",
                        ![t].current = fetch_current_invites(jt[t].guild)]
    /\ UNCHANGED <<lock_holder, lock_waiters, locks, platform, snapshot, lt, bt>>
    /\ UNCHANGED tblVars
    /\ UNCHANGED <<detVars, licVars>>
    /\ UNCHANGED secVars
    /\ UNCHANGED botVars

\* attribution = await self._detect_used_invite(member.guild, current): the
\* cache read of the previous snapshot and the diff
JoinDetect(t) ==
    /\ jt[t].pc = "detect"
    /\ jt' = [jt EXCEPT ![t].pc = "set_snapshot",
                        ![t].attribution =
                            detect_used_invite(snapshot[jt[t].guild], jt[t].current)]
    /\ UNCHANGED <<lock_holder, lock_waiters, locks, platform, snapshot, lt, bt>>
    /\ UNCHANGED tblVars
    /\ UNCHANGED <<detVars, licVars>>
    /\ UNCHANGED secVars
    /\ UNCHANGED botVars

\* Mutant of JoinSetSnapshot: the join leaves the stored snapshot as it was.
JoinSetSnapshot_skipped(t) ==
    /\ jt[t].pc = "set_snapshot"
    /\ jt' = [jt EXCEPT ![t].pc = "settings"]
    /\ UNCHANGED <<lock_holder, lock_waiters, locks, platform, snapshot, lt, bt>>
    /\ UNCHANGED tblVars
    /\ UNCHANGED <<detVars, licVars>>
    /\ UNCHANGED secVars
    /\ UNCHANGED botVars

\* await self.cache.set_json(self._snapshot_key(member.guild.id), current)
JoinSetSnapshot(t) ==
    /\ jt[t].pc = "set_snapshot"
    /\ snapshot' = [snapshot EXCEPT ![jt[t].guild] = SnapshotOf(jt[t].current)]
    /\ jt' = [jt EXCEPT ![t].pc = "settings"]
    /\ UNCHANGED <<lock_holder, lock_waiters, locks, platform, lt, bt>>
    /\ UNCHANGED tblVars
    /\ UNCHANGED <<detVars, licVars>>
    /\ UNCHANGED secVars
    /\ UNCHANGED botVars

\* Lines 236-241: min_account_age_hours of the guild's row and is_fake
JoinSettings(t) ==
    /\ jt[t].pc = "settings"
    /\ LET min_age == IF guilds[jt[t].guild].exists
                      THEN guilds[jt[t].guild].min_account_age_hours
                      ELSE default_min_account_age_hours
       IN jt' = [jt EXCEPT ![t].pc = "prior_leave",
                           ![t].min_age = min_age,
                           ![t].is_fake = Max(0, AgeHours(jt[t].member)) < min_age]
    /\ UNCHANGED <<lock_holder, lock_waiters, locks, platform, snapshot, lt, bt>>
    /\ UNCHANGED tblVars
    /\ UNCHANGED <<detVars, licVars>>
    /\ UNCHANGED secVars
    /\ UNCHANGED botVars

\* Mutant of prior_leave: the leaves of the member in any guild count.
prior_leave_any_guild(guild_id, member_id) ==
    \E i \in 1..Len(invite_leaves) : invite_leaves[i].member_id = member_id

\* Lines 243-252: SELECT 1 FROM invite_leaves WHERE guild_id = $1 AND
\* member_id = $2 LIMIT 1 (whether a row came back)
prior_leave(guild_id, member_id) ==
    \E i \in 1..Len(invite_leaves) :
        /\ invite_leaves[i].guild_id = guild_id
        /\ invite_leaves[i].member_id = member_id

\* Lines 243-253: is_rejoin, from the leave rows of this member in this guild
JoinPriorLeave(t) ==
    /\ jt[t].pc = "prior_leave"
    /\ jt' = [jt EXCEPT ![t].pc = "insert_join",
                        ![t].is_rejoin = prior_leave(jt[t].guild, jt[t].member)]
    /\ UNCHANGED <<lock_holder, lock_waiters, locks, platform, snapshot, lt, bt>>
    /\ UNCHANGED tblVars
    /\ UNCHANGED <<detVars, licVars>>
    /\ UNCHANGED secVars
    /\ UNCHANGED botVars

\* Lines 255-279: INSERT INTO invite_joins
JoinInsert(t) ==
    /\ jt[t].pc = "insert_join"
    /\ invite_joins' = Append(invite_joins,
          [guild_id |-> jt[t].guild, member_id |-> jt[t].member,
           invite_code |-> jt[t].attribution.invite_code,
           inviter_id |-> jt[t].attribution.inviter_id,
           attribution_confidence |-> jt[t].attribution.confidence,
           attribution_reason |-> jt[t].attribution.reason,
           is_fake |-> jt[t].is_fake, is_rejoin |-> jt[t].is_rejoin])
    /\ StepTo(t, AfterInsert(jt[t]))
    /\ UNCHANGED <<platform, snapshot, lt, bt>>
    /\ UNCHANGED <<users, invite_leaves, user_invite_stats, invites,
                   fraud_flags, bonus_invites>>
    /\ UNCHANGED <<detVars, licVars>>
    /\ UNCHANGED secVars
    /\ UNCHANGED botVars

\* Lines 281-287: if attribution.inviter_id: _update_invite_stats(...)
JoinStats(t) ==
    /\ jt[t].pc = "stats"
    /\ user_invite_stats' =
          update_invite_stats(user_invite_stats, jt[t].guild,
                              jt[t].attribution.inviter_id, jt[t].is_fake,
                              jt[t].is_rejoin)
    /\ StepTo(t, AfterStats(jt[t]))
    /\ UNCHANGED <<platform, snapshot, lt, bt>>
    /\ UNCHANGED <<users, invite_joins, invite_leaves, invites,
                   fraud_flags, bonus_invites>>
    /\ UNCHANGED <<detVars, licVars>>
    /\ UNCHANGED secVars
    /\ UNCHANGED botVars

\* Lines 289-302: if attribution.invite_code: upsert of the invites row
JoinInvites(t) ==
    /\ jt[t].pc = "invites"
    /\ LET k == <<jt[t].guild, jt[t].attribution.invite_code>>
           old == invites[k]
       IN invites' = [invites EXCEPT ![k] =
             IF old.exists
             THEN [old EXCEPT !.uses = @ + 1,
                              !.inviter_id =
                                 IF jt[t].attribution.inviter_id # None
                                 THEN jt[t].attribution.inviter_id ELSE @]
             ELSE [exists |-> TRUE, inviter_id |-> jt[t].attribution.inviter_id,
                   uses |-> 1, deleted |-> FALSE]]
    /\ StepTo(t, AfterInvites(jt[t]))
    /\ UNCHANGED <<platform, snapshot, lt, bt>>
    /\ UNCHANGED <<users, invite_joins, invite_leaves, user_invite_stats,
                   fraud_flags, bonus_invites>>
    /\ UNCHANGED <<detVars, licVars>>
    /\ UNCHANGED secVars
    /\ UNCHANGED botVars

\* Lines 304-319: if is_fake: INSERT INTO fraud_flags
JoinFraud(t) ==
    /\ jt[t].pc = "fraud"
    /\ fraud_flags' = Append(fraud_flags,
          [guild_id |-> jt[t].guild, member_id |-> jt[t].member,
           reason |-> "young_account",
           score |-> fraud_score(jt[t].min_age, Max(0, AgeHours(jt[t].member)))])
    /\ StepTo(t, "done")
    /\ UNCHANGED <<platform, snapshot, lt, bt>>
    /\ UNCHANGED <<users, invite_joins, invite_leaves, user_invite_stats,
                   invites, bonus_invites>>
    /\ UNCHANGED <<detVars, licVars>>
    /\ UNCHANGED secVars
    /\ UNCHANGED botVars

\* The positions of on_member_join between taking and releasing the lock.
SectionPcs ==
    {"ensure", "upsert_user", "fetch", "detect", "set_snapshot", "settings",
     "prior_leave", "insert_join", "stats", "invites", "fraud"}

\* Mutant of JoinRaises: the exception leaves the lock with the task.
JoinRaises_keeping_lock(t) ==
    /\ jt[t].pc \in SectionPcs
    /\ jt' = [jt EXCEPT ![t].pc = "raised"]
    /\ UNCHANGED <<lock_holder, lock_waiters, locks, platform, snapshot, lt, bt>>
    /\ UNCHANGED tblVars
    /\ UNCHANGED <<detVars, licVars>>
    /\ UNCHANGED secVars
    /\ UNCHANGED botVars

\* Lines 227-321: the call task t awaits inside `async with lock` raises (the
\* platform refuses guild.invites(), the cache or the store fails).  The
\* exception leaves the block, which releases the lock to the first waiter,
\* and then on_member_join and the event handler that awaited it.
JoinRaises(t) ==
    /\ jt[t].pc \in SectionPcs
    /\ LET k == lock_manager_get(jt[t].guild)
       IN IF lock_waiters[k] = <<>>
          THEN /\ jt' = [jt EXCEPT ![t].pc = "raised"]
               /\ lock_holder' = [lock_holder EXCEPT ![k] = None]
               /\ UNCHANGED <<lock_waiters, locks>>
          ELSE /\ jt' = [jt EXCEPT ![t].pc = "raised",
                                   ![Head(lock_waiters[k])].pc = "ensure"]
               /\ lock_holder' = [lock_holder EXCEPT ![k] = Head(lock_waiters[k])]
               /\ lock_waiters' = [lock_waiters EXCEPT ![k] = Tail(@)]
               /\ UNCHANGED locks
    /\ UNCHANGED <<platform, snapshot, lt, bt>>
    /\ UNCHANGED tblVars
    /\ UNCHANGED <<detVars, licVars>>
    /\ UNCHANGED secVars
    /\ UNCHANGED botVars

\* The gateway delivers member_left for member m of guild g.
LeaveEvent(t, g, m) ==
    /\ lt[t].pc = "idle"
    /\ \A d \in LeaveTasks : d < t => lt[d].pc # "idle"
    /\ lt' = [lt EXCEPT ![t] = [IdleLeave EXCEPT !.pc = "read", !.guild = g, !.member = m]]
    /\ UNCHANGED <<lock_holder, lock_waiters, locks, platform, snapshot, jt, bt>>
    /\ UNCHANGED tblVars
    /\ UNCHANGED <<detVars, licVars>>
    /\ UNCHANGED secVars
    /\ UNCHANGED botVars

\* Mutant of LastJoin: the oldest join row of (guild, member).
LastJoin_oldest(g, m) ==
    {i \in 1..Len(invite_joins) :
        /\ invite_joins[i].guild_id = g /\ invite_joins[i].member_id = m
        /\ \A j \in 1..Len(invite_joins) :
              (invite_joins[j].guild_id = g /\ invite_joins[j].member_id = m) => j >= i}

\* The most recent join row of (guild, member), if any.
LastJoin(g, m) ==
    {i \in 1..Len(invite_joins) :
        /\ invite_joins[i].guild_id = g /\ invite_joins[i].member_id = m
        /\ \A j \in 1..Len(invite_joins) :
              (invite_joins[j].guild_id = g /\ invite_joins[j].member_id = m) => j <= i}

\* Lines 324-335: inviter_id of the member's most recent join
LeaveRead(t) ==
    /\ lt[t].pc = "read"
    /\ lt' = [lt EXCEPT ![t].pc = "insert",
                        ![t].inviter_id =
                            IF LastJoin(lt[t].guild, lt[t].member) = {} THEN None
                            ELSE invite_joins[CHOOSE i \in LastJoin(lt[t].guild, lt[t].member) : TRUE].inviter_id]
    /\ UNCHANGED <<lock_holder, lock_waiters, locks, platform, snapshot, jt, bt>>
    /\ UNCHANGED tblVars
    /\ UNCHANGED <<detVars, licVars>>
    /\ UNCHANGED secVars
    /\ UNCHANGED botVars

\* Lines 337-345: INSERT INTO invite_leaves
LeaveInsert(t) ==
    /\ lt[t].pc = "insert"
    /\ invite_leaves' = Append(invite_leaves,
          [guild_id |-> lt[t].guild, member_id |-> lt[t].member,
           inviter_id |-> lt[t].inviter_id])
    /\ lt' = [lt EXCEPT ![t].pc = IF lt[t].inviter_id # None THEN "stats" ELSE "done"]
    /\ UNCHANGED <<lock_holder, lock_waiters, locks, platform, snapshot, jt, bt>>
    /\ UNCHANGED <<users, invite_joins, user_invite_stats, invites,
                   fraud_flags, bonus_invites>>
    /\ UNCHANGED <<detVars, licVars>>
    /\ UNCHANGED secVars
    /\ UNCHANGED botVars

\* Lines 347-358: if inviter_id: upsert of the inviter's leaves counter
LeaveStats(t) ==
    /\ lt[t].pc = "stats"
    /\ user_invite_stats' = upsert_leaves(user_invite_stats, lt[t].guild, lt[t].inviter_id)
    /\ lt' = [lt EXCEPT ![t].pc = "done"]
    /\ UNCHANGED <<lock_holder, lock_waiters, locks, platform, snapshot, jt, bt>>
    /\ UNCHANGED <<users, invite_joins, invite_leaves, invites,
                   fraud_flags, bonus_invites>>
    /\ UNCHANGED <<detVars, licVars>>
    /\ UNCHANGED secVars
    /\ UNCHANGED botVars

\* add_bonus_invites(guild_id, user_id, amount, reason): amount 0 returns at
\* once (lines 360-362)
BonusCall(t, g, u, amount) ==
    /\ bt[t].pc = "idle"
    /\ \A d \in BonusTasks : d < t => bt[d].pc # "idle"
    /\ bt' = [bt EXCEPT ![t] = [pc |-> IF amount = 0 THEN "done" ELSE "insert",
                                guild |-> g, user |-> u, amount |-> amount]]
    /\ UNCHANGED <<lock_holder, lock_waiters, locks, platform, snapshot, jt, lt>>
    /\ UNCHANGED tblVars
    /\ UNCHANGED <<detVars, licVars>>
    /\ UNCHANGED secVars
    /\ UNCHANGED botVars

\* Lines 363-372: INSERT INTO bonus_invites
BonusInsert(t) ==
    /\ bt[t].pc = "insert"
    /\ bonus_invites' = Append(bonus_invites,
          [guild_id |-> bt[t].guild, user_id |-> bt[t].user, amount |-> bt[t].amount])
    /\ bt' = [bt EXCEPT ![t].pc = "stats"]
    /\ UNCHANGED <<lock_holder, lock_waiters, locks, platform, snapshot, jt, lt>>
    /\ UNCHANGED <<users, invite_joins, invite_leaves, user_invite_stats, invites,
                   fraud_flags>>
    /\ UNCHANGED <<detVars, licVars>>
    /\ UNCHANGED secVars
    /\ UNCHANGED botVars

\* Lines 373-384: upsert of the user's bonus counter
BonusStats(t) ==
    /\ bt[t].pc = "stats"
    /\ user_invite_stats' = upsert_bonus(user_invite_stats, bt[t].guild, bt[t].user,
                                         bt[t].amount)
    /\ bt' = [bt EXCEPT ![t].pc = "done"]
    /\ UNCHANGED <<lock_holder, lock_waiters, locks, platform, snapshot, jt, lt>>
    /\ UNCHANGED <<users, invite_joins, invite_leaves, invites,
                   fraud_flags, bonus_invites>>
    /\ UNCHANGED <<detVars, licVars>>
    /\ UNCHANGED secVars
    /\ UNCHANGED botVars

\* ------------------------------------------------------------------------
\* SecurityService: the sliding-window counters
\*
\* A window is a sorted set of the cache whose members are the timestamps of
\* the recorded events (member str(now), score now: two records with the same
\* timestamp are one member).  A call reads the settings row, then reads the
\* clock and builds the pipeline without suspension, and then awaits
\* pipe.execute(): the pipeline is a MULTI/EXEC transaction, so ZADD,
\* ZREMRANGEBYSCORE and ZCARD act on the set as one step.  Between the clock
\* read and that step other calls run and the clock advances.
\* ------------------------------------------------------------------------
WindowTasks == 1..MaxRecords

\* f"security:joins:{guild_id}" and f"security:links:{guild_id}:{author_id}"
joins_key(guild_id) == <<"joins", guild_id, None>>

\* Mutant of links_key: one window per guild, shared by its authors.
links_key_per_guild(guild_id, author_id) == <<"links", guild_id, None>>

links_key(guild_id, author_id) == <<"links", guild_id, author_id>>

\* The stored set of a key (a key that does not exist is the empty set).
zset_of(k) == IF k \in DOMAIN zsets THEN zsets[k] ELSE {}

\* pipe.zadd(key, {str(now): now})
zadd(S, score) == S \cup {score}

\* Mutant of zremrangebyscore: the upper end of the range left out.
zremrangebyscore_exclusive(S, lo, hi) == {x \in S : ~(lo <= x /\ x < hi)}

\* pipe.zremrangebyscore(key, min, max): both ends inclusive
zremrangebyscore(S, lo, hi) == {x \in S : ~(lo <= x /\ x <= hi)}

\* Lines 78-80 / 157-159: add, evict, count, in this order
record_and_count(S, t, window) ==
    LET kept == zremrangebyscore(zadd(S, t), 0, t - window)
    IN [set |-> kept, count |-> Cardinality(kept)]

\* The cache after the pipeline ran on key k (a sorted set without members
\* does not exist).
zsets_after(k, S) ==
    [x \in (IF S = {} THEN DOMAIN zsets \ {k} ELSE DOMAIN zsets \cup {k}) |->
        IF x = k THEN S ELSE zsets[x]]

\* Mutant of key_expiry: the window itself.
key_expiry_window(window) == window

\* pipe.expire(key, max(window, 60)): the seconds the key is given
key_expiry(window) == Max(window, 60)

\* The expiry times after the pipeline ran on key k at clock time t: EXPIRE
\* gives a key that exists its time to live, counted from the execution.
ttl_after(k, S, window, t) ==
    [x \in (IF S = {} THEN DOMAIN ttl \ {k} ELSE DOMAIN ttl \cup {k}) |->
        IF x = k THEN t + key_expiry(window) ELSE ttl[x]]

IdleWindow ==
    [pc |-> "idle", kind |-> "none", guild |-> None, author |-> None,
     key |-> <<>>, now |-> None, window |-> None, threshold |-> None,
     count |-> None, burst |-> FALSE, is_bot |-> FALSE, has_link |-> FALSE]

WindowIdle ==
    /\ zsets = [k \in {} |-> {}]
    /\ ttl = [k \in {} |-> 0]
    /\ wt = [t \in WindowTasks |-> IdleWindow]
    /\ timed_out = {}

\* check_join_burst(guild_id) is called.
BurstCall(t, g) ==
    /\ wt[t].pc = "idle"
    /\ \A d \in WindowTasks : d < t => wt[d].pc # "idle"
    /\ wt' = [wt EXCEPT ![t] = [IdleWindow EXCEPT !.pc = "settings", !.kind = "joins",
                                                  !.guild = g]]
    /\ UNCHANGED <<zsets, ttl, timed_out>>
    /\ UNCHANGED <<detVars, licVars, trkVars, lkVars>>
    /\ UNCHANGED botVars

\* The gateway delivers a message to on_message -> handle_link_spam.  A
\* message outside a guild, by a bot, or without a link returns at once
\* (lines 140-143).
LinkMessage(t, g, a, is_bot, has_link) ==
    /\ wt[t].pc = "idle"
    /\ \A d \in WindowTasks : d < t => wt[d].pc # "idle"
    /\ wt' = [wt EXCEPT ![t] =
          [IdleWindow EXCEPT !.pc = IF g = None \/ is_bot \/ ~has_link
                                    THEN "done" ELSE "settings",
                             !.kind = "links", !.guild = g, !.author = a,
                             !.is_bot = is_bot, !.has_link = has_link]]
    /\ UNCHANGED <<zsets, ttl, timed_out>>
    /\ UNCHANGED <<detVars, licVars, trkVars, lkVars>>
    /\ UNCHANGED botVars

\* Lines 67-77 / 145-156: the settings row (none: the call returns without
\* recording), the window, the threshold, the key and the clock.
WindowSettings(t) ==
    /\ wt[t].pc = "settings"
    /\ LET row == guilds[wt[t].guild]
       IN wt' = [wt EXCEPT ![t] =
             IF ~row.exists THEN [@ EXCEPT !.pc = "done"]
             ELSE IF wt[t].kind = "joins"
             THEN [@ EXCEPT !.pc = "pipeline", !.now = now,
                            !.key = joins_key(wt[t].guild),
                            !.window = row.join_burst_window_seconds,
                            !.threshold = row.join_burst_count]
             ELSE [@ EXCEPT !.pc = "pipeline", !.now = now,
                            !.key = links_key(wt[t].guild, wt[t].author),
                            !.window = row.link_spam_window_seconds,
                            !.threshold = row.link_spam_threshold]]
    /\ UNCHANGED <<zsets, ttl, timed_out>>
    /\ UNCHANGED <<detVars, licVars, trkVars, lkVars>>
    /\ UNCHANGED botVars


\* SecurityService.log_incident: INSERT INTO incidents; created_at takes the
\* time of the insert.
log_incident(tbl, guild_id, incident_type, severity, actor_id, t) ==
    Append(tbl, [guild_id |-> guild_id, incident_type |-> incident_type,
                 severity |-> severity, actor_id |-> actor_id, created_at |-> t])

\* Lines 82-84 / 161-164: await pipe.execute() and the comparison with the
\* threshold.  check_join_burst returns the comparison; handle_link_spam goes
\* on to the timeout when the threshold is reached.
WindowPipeline(t) ==
    /\ wt[t].pc = "pipeline"
    /\ LET r == record_and_count(zset_of(wt[t].key), wt[t].now, wt[t].window)
           reached == r.count >= wt[t].threshold
       IN /\ zsets' = zsets_after(wt[t].key, r.set)
          /\ ttl' = ttl_after(wt[t].key, r.set, wt[t].window, now)
          /\ wt' = [wt EXCEPT ![t].count = r.count,
                              ![t].burst = reached,
                              ![t].pc = IF wt[t].kind = "links" /\ reached
                                        THEN "timeout" ELSE "done"]
    /\ UNCHANGED timed_out
    /\ UNCHANGED <<detVars, licVars, trkVars, lkVars>>
    /\ UNCHANGED botVars

\* Lines 166-172 and 185-186: message.author.edit(timed_out_until=...); the
\* platform may refuse it (discord.Forbidden), which ends the handler.
LinkTimeout(t, permitted) ==
    /\ wt[t].pc = "timeout"
    /\ IF permitted
       THEN /\ timed_out' = timed_out \cup {<<wt[t].guild, wt[t].author>>}
            /\ wt' = [wt EXCEPT ![t].pc = "incident"]
       ELSE /\ wt' = [wt EXCEPT ![t].pc = "done"]
            /\ UNCHANGED timed_out
    /\ UNCHANGED <<zsets, ttl>>
    /\ UNCHANGED <<detVars, licVars, trkVars, lkVars>>
    /\ UNCHANGED botVars

\* Lines 173-184: the high incident (the message to the log channel that
\* follows changes nothing the program keeps).
LinkIncident(t) ==
    /\ wt[t].pc = "incident"
    /\ incidents' = log_incident(incidents, wt[t].guild, "link_spam_timeout", "high",
                                 wt[t].author, now)
    /\ wt' = [wt EXCEPT ![t].pc = "done"]
    /\ UNCHANGED <<zsets, ttl, timed_out>>
    /\ UNCHANGED <<now, premium_licenses, lic_lock, guilds, act>>
    /\ UNCHANGED <<detVars, trkVars, lkVars>>
    /\ UNCHANGED botVars

\* ------------------------------------------------------------------------
\* SecurityService.set_lockdown
\*
\* The backup of the channels' slowmode values is a JSON object in the cache,
\* keyed by str(channel.id) and stored with a time to live of 24 hours.  The
\* channels of a guild are visited in the order of guild.text_channels.
\* The platform accepts or refuses each edit of a channel (the permission
\* overwrites of a channel may change at any time).
\* ------------------------------------------------------------------------
LockdownTasks == 1..MaxCommands

\* The text channels of the guilds before any is created.
ChannelIds(g) == CASE g = 1 -> {41, 42} [] g = 2 -> {43} [] OTHER -> {}

\* A channel a member of the guild may create.
CreatableChannels(g) == IF g = 1 THEN {44} ELSE {}

\* guild.text_channels
TextChannels(g) == CodeSeq(DOMAIN channels[g])

\* The slowmode of the channels before any lockdown: channel 41 is throttled.
InitialSlowmode(c) == IF c = 41 THEN 5 ELSE 0

\* Values of lockdown_slowmode_seconds: off, equal to a channel's own value,
\* and the default.
LockdownSlowmodes == {0, 5, default_lockdown_slowmode_seconds}

\* A dict without keys.
EmptyMap == [c \in {} |-> 0]

\* No value under the key security:slowmode_backup:{guild.id}.
NoBackup == [exists |-> FALSE, map |-> EmptyMap]

IdleLockdown ==
    [pc |-> "idle", guild |-> None, enabled |-> FALSE, alone |-> FALSE,
     slowmode |-> None, previous_slowmodes |-> EmptyMap, backup |-> EmptyMap,
     found |-> FALSE, refused |-> {}, todo |-> <<>>, invs |-> <<>>,
     listed |-> FALSE, kept |-> {}, edited |-> {}, visited |-> {}]

LockdownIdle ==
    /\ channels = [g \in Guilds |-> [c \in ChannelIds(g) |-> InitialSlowmode(c)]]
    /\ slowmode_backup = [g \in Guilds |-> NoBackup]
    /\ lk = [t \in LockdownTasks |-> IdleLockdown]

\* /security lockdown and /security unlock: set_lockdown(guild, enabled) is
\* called.  The commands of a run are issued one after the other, each when
\* the one before it has returned (`alone`).
LockdownCall(t, g, enabled) ==
    /\ lk[t].pc = "idle"
    /\ \A d \in LockdownTasks : d < t => lk[d].pc = "done"
    /\ lk' = [lk EXCEPT ![t] =
          [IdleLockdown EXCEPT !.pc = "update", !.guild = g, !.enabled = enabled,
                               !.alone = \A d \in LockdownTasks :
                                            d < t => lk[d].pc = "done"]]
    /\ UNCHANGED <<channels, slowmode_backup>>
    /\ UNCHANGED <<detVars, licVars, trkVars, winVars>>
    /\ UNCHANGED botVars

\* Lines 196-200: UPDATE guilds SET lockdown_enabled = $2 WHERE guild_id = $1
LockdownUpdate(t) ==
    /\ lk[t].pc = "update"
    /\ guilds' = IF guilds[lk[t].guild].exists
                 THEN [guilds EXCEPT ![lk[t].guild].lockdown_enabled = lk[t].enabled]
                 ELSE guilds
    /\ lk' = [lk EXCEPT ![t].pc = IF lk[t].enabled THEN "settings" ELSE "read_backup"]
    /\ UNCHANGED <<channels, slowmode_backup>>
    /\ UNCHANGED <<now, premium_licenses, lic_lock, incidents, act>>
    /\ UNCHANGED <<detVars, trkVars, winVars>>
    /\ UNCHANGED botVars

\* Lines 212-218: the settings row; without one _enable_lockdown_controls
\* returns and set_lockdown goes on to its incident.
EnableSettings(t) ==
    /\ lk[t].pc = "settings"
    /\ lk' = [lk EXCEPT ![t] =
          IF ~guilds[lk[t].guild].exists THEN [@ EXCEPT !.pc = "incident"]
          ELSE [@ EXCEPT !.slowmode = guilds[lk[t].guild].lockdown_slowmode_seconds,
                         !.todo = TextChannels(lk[t].guild),
                         !.pc = IF TextChannels(lk[t].guild) = <<>>
                                THEN "set_backup" ELSE "edit"]]
    /\ UNCHANGED <<channels, slowmode_backup>>
    /\ UNCHANGED <<detVars, licVars, trkVars, winVars>>
    /\ UNCHANGED botVars

\* Mutant of MapSet: the dict is left as it was.
MapSet_nothing(d, k, v) == d

\* The dict d with d[k] = v
MapSet(d, k, v) == [x \in DOMAIN d \cup {k} |-> IF x = k THEN v ELSE d[x]]

\* Lines 220-225, one channel: its slowmode_delay goes into the local dict,
\* then the edit, which the platform refuses for a channel the bot may not
\* edit (discord.Forbidden, logged: `refused`).
EnableChannel(t, permitted) ==
    /\ lk[t].pc = "edit"
    /\ LET g == lk[t].guild
           c == Head(lk[t].todo)
       IN /\ channels' = IF permitted
                         THEN [channels EXCEPT ![g][c] = lk[t].slowmode]
                         ELSE channels
          /\ lk' = [lk EXCEPT
                ![t].previous_slowmodes = MapSet(@, c, channels[g][c]),
                ![t].refused = IF permitted THEN @ ELSE @ \cup {c},
                ![t].edited = @ \cup {c},
                ![t].todo = Tail(@),
                ![t].pc = IF Tail(lk[t].todo) = <<>> THEN "set_backup" ELSE "edit"]
    /\ UNCHANGED slowmode_backup
    /\ UNCHANGED <<detVars, licVars, trkVars, winVars>>
    /\ UNCHANGED botVars

\* Line 227: cache.set_json(backup key, previous_slowmodes, ex=86400)
EnableBackup(t) ==
    /\ lk[t].pc = "set_backup"
    /\ slowmode_backup' = [slowmode_backup EXCEPT ![lk[t].guild] =
                              [exists |-> TRUE, map |-> lk[t].previous_slowmodes]]
    /\ lk' = [lk EXCEPT ![t].pc = "list_invites"]
    /\ UNCHANGED channels
    /\ UNCHANGED <<detVars, licVars, trkVars, winVars>>
    /\ UNCHANGED botVars


\* Lines 229-230 and 236-237: guild.invites(); when the platform refuses the
\* listing nothing is revoked.
EnableListInvites(t, permitted) ==
    /\ lk[t].pc = "list_invites"
    /\ LET invs == IF permitted THEN CodeSeq(DOMAIN platform[lk[t].guild]) ELSE <<>>
       IN lk' = [lk EXCEPT ![t].invs = invs,
                           ![t].listed = permitted,
                           ![t].pc = IF invs = <<>> THEN "incident" ELSE "delete_invite"]
    /\ UNCHANGED <<channels, slowmode_backup>>
    /\ UNCHANGED <<detVars, licVars, trkVars, winVars>>
    /\ UNCHANGED botVars

\* Lines 231-235, one invite: inv.delete(), which the platform may refuse
\* (discord.Forbidden, logged: `kept`).
EnableDeleteInvite(t, permitted) ==
    /\ lk[t].pc = "delete_invite"
    /\ LET g == lk[t].guild
           c == Head(lk[t].invs)
       IN /\ platform' = IF permitted
                         THEN [platform EXCEPT ![g] =
                                  [x \in DOMAIN platform[g] \ {c} |-> platform[g][x]]]
                         ELSE platform
          /\ lk' = [lk EXCEPT ![t].invs = Tail(@),
                              ![t].kept = IF permitted THEN @ ELSE @ \cup {c},
                              ![t].pc = IF Tail(lk[t].invs) = <<>>
                                        THEN "incident" ELSE "delete_invite"]
    /\ UNCHANGED <<channels, slowmode_backup>>
    /\ UNCHANGED <<lock_holder, lock_waiters, locks, snapshot, jt, lt, bt>>
    /\ UNCHANGED tblVars
    /\ UNCHANGED <<detVars, licVars, winVars>>
    /\ UNCHANGED botVars

\* Line 240: backup = await self.cache.get_json(backup key) or {}, and the
\* list guild.text_channels of line 241
DisableReadBackup(t) ==
    /\ lk[t].pc = "read_backup"
    /\ LET stored == slowmode_backup[lk[t].guild]
       IN lk' = [lk EXCEPT ![t].backup = IF stored.exists THEN stored.map ELSE EmptyMap,
                           ![t].found = stored.exists,
                           ![t].todo = TextChannels(lk[t].guild),
                           ![t].visited = DOMAIN channels[lk[t].guild],
                           ![t].pc = IF TextChannels(lk[t].guild) = <<>>
                                     THEN "incident" ELSE "restore"]
    /\ UNCHANGED <<channels, slowmode_backup>>
    /\ UNCHANGED <<detVars, licVars, trkVars, winVars>>
    /\ UNCHANGED botVars

\* Mutant of desired_slowmode: a channel without entry gets the throttle 5.
desired_slowmode_default5(backup, c) == IF c \in DOMAIN backup THEN backup[c] ELSE 5

\* Mutant of desired_slowmode: the backup ignored, every channel reset to 0.
desired_slowmode_zero(backup, c) == 0

\* int(backup.get(str(channel.id), 0))
desired_slowmode(backup, c) == IF c \in DOMAIN backup THEN backup[c] ELSE 0

\* Lines 241-248, one channel: a channel already at the desired value is
\* skipped, another one is edited unless the platform refuses (`edited`: the
\* channels channel.edit was called for).
DisableChannel(t, permitted) ==
    /\ lk[t].pc = "restore"
    /\ LET g == lk[t].guild
           c == Head(lk[t].todo)
           desired == desired_slowmode(lk[t].backup, c)
       IN /\ channels' = IF channels[g][c] # desired /\ permitted
                         THEN [channels EXCEPT ![g][c] = desired]
                         ELSE channels
          /\ lk' = [lk EXCEPT ![t].refused =
                                 IF channels[g][c] # desired /\ ~permitted
                                 THEN @ \cup {c} ELSE @,
                              ![t].edited =
                                 IF channels[g][c] # desired THEN @ \cup {c} ELSE @,
                              ![t].todo = Tail(@),
                              ![t].pc = IF Tail(lk[t].todo) = <<>>
                                        THEN "incident" ELSE "restore"]
    /\ UNCHANGED slowmode_backup
    /\ UNCHANGED <<detVars, licVars, trkVars, winVars>>
    /\ UNCHANGED botVars

\* Lines 204-205 / 208-209: the incident of set_lockdown (the message to the
\* log channel that follows changes nothing the program keeps).
LockdownIncident(t) ==
    /\ lk[t].pc = "incident"
    /\ incidents' =
          IF lk[t].enabled
          THEN log_incident(incidents, lk[t].guild, "lockdown_enabled", "critical", None, now)
          ELSE log_incident(incidents, lk[t].guild, "lockdown_disabled", "medium", None, now)
    /\ lk' = [lk EXCEPT ![t].pc = "done"]
    /\ UNCHANGED <<channels, slowmode_backup>>
    /\ UNCHANGED <<now, premium_licenses, lic_lock, guilds, act>>
    /\ UNCHANGED <<detVars, trkVars, winVars>>
    /\ UNCHANGED botVars

\* A member creates text channel c in guild g, with slowmode s.  A loop over
\* guild.text_channels that has begun visits the channels the list held when
\* it began (`visited`).
ChannelCreated(g, c, s) ==
    /\ c \in CreatableChannels(g) \ DOMAIN channels[g]
    /\ channels' = [channels EXCEPT ![g] =
                       [x \in DOMAIN channels[g] \cup {c} |->
                           IF x = c THEN s ELSE channels[g][x]]]
    /\ UNCHANGED <<slowmode_backup, lk>>
    /\ UNCHANGED <<detVars, licVars, trkVars, winVars>>
    /\ UNCHANGED botVars

\* An administrator of guild g sets the slowmode of text channel c to s in the
\* platform's own channel settings.
SlowmodeEdited(g, c, s) ==
    /\ c \in DOMAIN channels[g]
    /\ channels[g][c] # s
    /\ channels' = [channels EXCEPT ![g][c] = s]
    /\ UNCHANGED <<slowmode_backup, lk>>
    /\ UNCHANGED <<detVars, licVars, trkVars, winVars>>
    /\ UNCHANGED botVars

\* The 24 hours of the backup key (ex=86400) have passed: the cache drops it.
BackupExpires(g) ==
    /\ slowmode_backup[g].exists
    /\ slowmode_backup' = [slowmode_backup EXCEPT ![g] = NoBackup]
    /\ UNCHANGED <<channels, lk>>
    /\ UNCHANGED <<detVars, licVars, trkVars, winVars>>
    /\ UNCHANGED botVars

\* ------------------------------------------------------------------------
\* InviteSecurityBot: the gateway handlers
\*
\* on_member_join awaits the tracker's on_member_join and then, outside the
\* guild lock, the security checks, each in the frame of the join.  The
\* messages post_security_log sends change nothing the program keeps.
\* ------------------------------------------------------------------------
\* trkVars without the join frames, licVars without guilds and incidents
joinRest == <<lock_holder, lock_waiters, locks, platform, snapshot, lt, bt,
              users, invite_joins, invite_leaves, user_invite_stats, invites,
              fraud_flags, bonus_invites>>

licRest == <<now, premium_licenses, lic_lock, act>>

\* guild.roles, by name
GuildRoles(g) == IF g = 1 THEN {"Quarantine", "Member"} ELSE {"Member"}

\* Mutant of is_lockdown: every guild counts as locked down.
is_lockdown_always(guild_id) == TRUE

\* is_lockdown: bool(row and row["lockdown_enabled"])
is_lockdown(guild_id) == guilds[guild_id].exists /\ guilds[guild_id].lockdown_enabled

\* assert_premium returns (TRUE) or raises PremiumRequiredError (FALSE): it
\* raises without a settings row and with is_premium false.
assert_premium_ungated(guild_id) == TRUE

assert_premium(guild_id) == guilds[guild_id].exists /\ guilds[guild_id].is_premium

\* Mutant of guilds_after_burst: the breach enables the lockdown.
guilds_after_burst_locked(guild_id) ==
    [guilds EXCEPT ![guild_id].lockdown_enabled = TRUE]

\* The guilds table after the handling of a join burst: main.py lines 97-108
\* write an incident and a message, and no settings.
guilds_after_burst(guild_id) == guilds

\* Line 94 returns: the tracker's on_member_join is done and line 95 calls
\* apply_quarantine_if_lockdown.
JoinReturns(t) ==
    /\ jt[t].pc = "done"
    /\ jt' = [jt EXCEPT ![t].pc = "is_lockdown"]
    /\ UNCHANGED joinRest
    /\ UNCHANGED <<detVars, licVars, secVars, botVars>>

\* security.py lines 126-133: is_lockdown, then the settings row and the
\* role of the configured name (or the default name); without lockdown, row
\* or role nothing is assigned.
QuarantineCheck(t) ==
    /\ jt[t].pc = "is_lockdown"
    /\ LET g == jt[t].guild
           role_name == IF guilds[g].quarantine_role_name # ""
                        THEN guilds[g].quarantine_role_name
                        ELSE default_quarantine_role_name
       IN jt' = [jt EXCEPT ![t].pc =
                    IF is_lockdown(g) /\ guilds[g].exists /\ role_name \in GuildRoles(g)
                    THEN "add_roles" ELSE "burst_settings"]
    /\ UNCHANGED joinRest
    /\ UNCHANGED <<detVars, licVars, secVars, botVars>>

\* security.py lines 134-137: member.add_roles(role), which the platform may
\* refuse (discord.Forbidden, logged).
QuarantineAddRole(t, permitted) ==
    /\ jt[t].pc = "add_roles"
    /\ quarantined' = IF permitted
                      THEN quarantined \cup {<<jt[t].guild, jt[t].member>>}
                      ELSE quarantined
    /\ jt' = [jt EXCEPT ![t].pc = "burst_settings"]
    /\ UNCHANGED joinRest
    /\ UNCHANGED <<it, kicked, rp, ready>>
    /\ UNCHANGED <<detVars, licVars, secVars>>

\* security.py lines 67-77, called from main.py line 97: the settings row
\* (none: check_join_burst returns False), the clock, window and threshold.
JoinBurstSettings(t) ==
    /\ jt[t].pc = "burst_settings"
    /\ LET row == guilds[jt[t].guild]
       IN jt' = [jt EXCEPT ![t] =
             IF ~row.exists THEN [@ EXCEPT !.pc = "age_settings"]
             ELSE [@ EXCEPT !.pc = "burst_pipeline", !.burst_now = now,
                            !.window = row.join_burst_window_seconds,
                            !.threshold = row.join_burst_count]]
    /\ UNCHANGED joinRest
    /\ UNCHANGED <<detVars, licVars, secVars, botVars>>

\* security.py lines 78-84: the pipeline and the comparison; main.py line 98
\* branches on the result.
JoinBurstPipeline(t) ==
    /\ jt[t].pc = "burst_pipeline"
    /\ LET k == joins_key(jt[t].guild)
           r == record_and_count(zset_of(k), jt[t].burst_now, jt[t].window)
       IN /\ zsets' = zsets_after(k, r.set)
          /\ ttl' = ttl_after(k, r.set, jt[t].window, now)
          /\ jt' = [jt EXCEPT ![t].count = r.count,
                              ![t].burst = r.count >= jt[t].threshold,
                              ![t].pc = IF r.count >= jt[t].threshold
                                        THEN "burst_incident" ELSE "age_settings"]
    /\ UNCHANGED joinRest
    /\ UNCHANGED <<wt, timed_out>>
    /\ UNCHANGED <<detVars, licVars, lkVars, botVars>>

\* main.py lines 98-109: the critical incident join_burst_detected and the
\* message recommending a lockdown.
JoinBurstIncident(t) ==
    /\ jt[t].pc = "burst_incident"
    /\ incidents' = log_incident(incidents, jt[t].guild, "join_burst_detected",
                                 "critical", None, now)
    /\ guilds' = guilds_after_burst(jt[t].guild)
    /\ jt' = [jt EXCEPT ![t].pc = "age_settings"]
    /\ UNCHANGED joinRest
    /\ UNCHANGED licRest
    /\ UNCHANGED <<detVars, secVars, botVars>>

\* Mutant of old_enough: an account exactly at the minimum is too young.
old_enough_strict(age_hours, min_age_hours) == age_hours > min_age_hours

\* security.py line 94: if age_hours >= min_age_hours: return False
old_enough(age_hours, min_age_hours) == age_hours >= min_age_hours

\* security.py lines 87-95: enforce_account_age returns False without a
\* settings row and for an account old enough.
AgeSettings(t) ==
    /\ jt[t].pc = "age_settings"
    /\ LET row == guilds[jt[t].guild]
       IN jt' = [jt EXCEPT ![t] =
             IF ~row.exists \/ old_enough(AgeHours(jt[t].member), row.min_account_age_hours)
             THEN [@ EXCEPT !.pc = "blacklist_gate"]
             ELSE [@ EXCEPT !.pc = "age_incident",
                            !.auto_kick = row.auto_kick_young_accounts]]
    /\ UNCHANGED joinRest
    /\ UNCHANGED <<detVars, licVars, secVars, botVars>>

\* security.py lines 97-106: the medium incident young_account_detected
AgeIncident(t) ==
    /\ jt[t].pc = "age_incident"
    /\ incidents' = log_incident(incidents, jt[t].guild, "young_account_detected",
                                 "medium", jt[t].member, now)
    /\ jt' = [jt EXCEPT ![t].pc = IF jt[t].auto_kick THEN "kick" ELSE "blacklist_gate"]
    /\ UNCHANGED joinRest
    /\ UNCHANGED <<licRest, guilds>>
    /\ UNCHANGED <<detVars, secVars, botVars>>

\* security.py lines 107-108 and 121-123: member.kick(), which the platform
\* may refuse (discord.Forbidden, logged; the function returns False).
AgeKick(t, permitted) ==
    /\ jt[t].pc = "kick"
    /\ kicked' = IF permitted THEN kicked \cup {<<jt[t].guild, jt[t].member>>}
                 ELSE kicked
    /\ jt' = [jt EXCEPT ![t].pc = IF permitted THEN "kick_incident" ELSE "blacklist_gate"]
    /\ UNCHANGED joinRest
    /\ UNCHANGED <<it, quarantined, rp, ready>>
    /\ UNCHANGED <<detVars, licVars, secVars>>

\* security.py lines 109-120: the high incident young_account_kicked; the
\* function returns True.
AgeKickIncident(t) ==
    /\ jt[t].pc = "kick_incident"
    /\ incidents' = log_incident(incidents, jt[t].guild, "young_account_kicked",
                                 "high", jt[t].member, now)
    /\ jt' = [jt EXCEPT ![t].pc = "blacklist_gate", ![t].age_result = TRUE]
    /\ UNCHANGED joinRest
    /\ UNCHANGED <<licRest, guilds>>
    /\ UNCHANGED <<detVars, secVars, botVars>>

\* security.py lines 267-270: assert_premium inside try; PremiumRequiredError
\* is caught and the function returns False.
BlacklistGate(t) ==
    /\ jt[t].pc = "blacklist_gate"
    /\ jt' = [jt EXCEPT ![t].pc = IF assert_premium(jt[t].guild)
                                  THEN "blacklist_lookup" ELSE "handled"]
    /\ UNCHANGED joinRest
    /\ UNCHANGED <<detVars, licVars, secVars, botVars>>

\* Mutant of blacklist_row: the lookup restricted to the member's guild.
blacklist_row_same_guild(guild_id, member_id) ==
    \E i \in 1..Len(fraud_flags) :
        /\ fraud_flags[i].member_id = member_id
        /\ fraud_flags[i].guild_id = guild_id
        /\ fraud_flags[i].reason = "cross_server_blacklist"

\* security.py lines 272-281: SELECT id FROM fraud_flags WHERE member_id = $1
\* AND reason = 'cross_server_blacklist' LIMIT 1 (whether a row came back)
blacklist_row(guild_id, member_id) ==
    \E i \in 1..Len(fraud_flags) :
        /\ fraud_flags[i].member_id = member_id
        /\ fraud_flags[i].reason = "cross_server_blacklist"

\* security.py lines 272-283: the lookup; no row returns False.
BlacklistLookup(t) ==
    /\ jt[t].pc = "blacklist_lookup"
    /\ jt' = [jt EXCEPT ![t].pc = IF blacklist_row(jt[t].guild, jt[t].member)
                                  THEN "blacklist_incident" ELSE "handled"]
    /\ UNCHANGED joinRest
    /\ UNCHANGED <<detVars, licVars, secVars, botVars>>

\* security.py lines 285-296: the critical incident cross_server_blacklist_hit;
\* the function returns True.
BlacklistIncident(t) ==
    /\ jt[t].pc = "blacklist_incident"
    /\ incidents' = log_incident(incidents, jt[t].guild, "cross_server_blacklist_hit",
                                 "critical", jt[t].member, now)
    /\ jt' = [jt EXCEPT ![t].pc = "handled", ![t].blacklist_result = TRUE]
    /\ UNCHANGED joinRest
    /\ UNCHANGED <<licRest, guilds>>
    /\ UNCHANGED <<detVars, secVars, botVars>>

\* The steps of main.py's on_member_join after the tracker's part.
JoinChecksStep(t) ==
    \/ JoinReturns(t)
    \/ QuarantineCheck(t)
    \/ \E permitted \in BOOLEAN : QuarantineAddRole(t, permitted)
    \/ JoinBurstSettings(t)
    \/ JoinBurstPipeline(t)
    \/ JoinBurstIncident(t)
    \/ AgeSettings(t)
    \/ AgeIncident(t)
    \/ \E permitted \in BOOLEAN : AgeKick(t, permitted)
    \/ AgeKickIncident(t)
    \/ BlacklistGate(t)
    \/ BlacklistLookup(t)
    \/ BlacklistIncident(t)

\* ---- on_invite_create / on_invite_delete --------------------------------
InviteTasks == 1..MaxInvites

IdleInvite ==
    [pc |-> "idle", kind |-> "", guild |-> None, code |-> None, uses |-> 0,
     snap |-> [c \in {} |-> 0]]

PredictionTasks == 1..MaxPredictions

\* The dict advanced_raid_prediction returns, before it has returned.
NoPrediction == [risk |-> "", score |-> None, incidents_last_hour |-> None]

IdlePrediction ==
    [pc |-> "idle", guild |-> None, fetched |-> FALSE, result |-> NoPrediction]

\* No start-up pass is running: on_ready has visited every guild.
NoPass == [pending |-> <<>>, pc |-> "ensure"]

BotIdle ==
    /\ it = [t \in InviteTasks |-> IdleInvite]
    /\ quarantined = {}
    /\ kicked = {}
    /\ rp = [t \in PredictionTasks |-> IdlePrediction]
    /\ ready = NoPass

\* rebuild_all_snapshots, line 95: await self.ensure_guild_row(guild) for the
\* next guild of the list; an existing row keeps its settings.
ReadyEnsure ==
    /\ ready.pc = "ensure"
    /\ ready.pending # <<>>
    /\ guilds' = ensure_guild_row(guilds, Head(ready.pending), FirstName)
    /\ ready' = [ready EXCEPT !.pc = "rebuild"]
    /\ UNCHANGED <<now, premium_licenses, lic_lock, incidents, act>>
    /\ UNCHANGED <<it, quarantined, kicked, rp>>
    /\ UNCHANGED <<detVars, trkVars, secVars>>

\* ensure_guild_row(guild) is called for guild g, whose name on the platform
\* is `name` by now, as lines 95 and 229 and on_guild_join do.
EnsureCall(g, name) ==
    /\ guilds' = ensure_guild_row(guilds, g, name)
    /\ guilds' # guilds
    /\ UNCHANGED <<now, premium_licenses, lic_lock, incidents, act>>
    /\ UNCHANGED detVars
    /\ UNCHANGED secVars
    /\ UNCHANGED trkVars
    /\ UNCHANGED botVars

\* rebuild_all_snapshots, line 96: rebuild_guild_snapshot(guild) stores the
\* guild's live invites, or returns on discord.Forbidden (lines 75-91); the
\* loop goes on to the next guild.
ReadyRebuild(permitted) ==
    /\ ready.pc = "rebuild"
    /\ LET g == Head(ready.pending)
       IN snapshot' = IF permitted
                      THEN [snapshot EXCEPT ![g] = SnapshotOf(fetch_current_invites(g))]
                      ELSE snapshot
    /\ ready' = [pending |-> Tail(ready.pending), pc |-> "ensure"]
    /\ UNCHANGED <<lock_holder, lock_waiters, locks, platform, jt, lt, bt>>
    /\ UNCHANGED tblVars
    /\ UNCHANGED <<it, quarantined, kicked, rp>>
    /\ UNCHANGED <<detVars, licVars, secVars>>

\* A member of guild g creates invite c: the platform lists it with no use
\* and the gateway delivers invite_create.
InviteCreated(t, g, c) ==
    /\ it[t].pc = "idle"
    /\ \A d \in InviteTasks : d < t => it[d].pc # "idle"
    /\ c \in CreatableCodes(g) \ DOMAIN platform[g]
    /\ platform' = [platform EXCEPT ![g] =
                       [x \in DOMAIN platform[g] \cup {c} |->
                           IF x = c THEN 0 ELSE platform[g][x]]]
    /\ it' = [it EXCEPT ![t] = [IdleInvite EXCEPT !.pc = "snap_read", !.kind = "create",
                                                  !.guild = g, !.code = c]]
    /\ UNCHANGED <<lock_holder, lock_waiters, locks, snapshot, jt, lt, bt>>
    /\ UNCHANGED tblVars
    /\ UNCHANGED <<quarantined, kicked, rp, ready>>
    /\ UNCHANGED <<detVars, licVars, secVars>>

\* Invite c of guild g is deleted (by a member, or by the bot itself) and
\* the gateway delivers invite_delete.
InviteDeleted(t, g, c) ==
    /\ it[t].pc = "idle"
    /\ \A d \in InviteTasks : d < t => it[d].pc # "idle"
    /\ c \in CodesOf(g) \cup CreatableCodes(g)
    /\ platform' = [platform EXCEPT ![g] =
                       [x \in DOMAIN platform[g] \ {c} |-> platform[g][x]]]
    /\ it' = [it EXCEPT ![t] = [IdleInvite EXCEPT !.pc = "snap_read", !.kind = "delete",
                                                  !.guild = g, !.code = c]]
    /\ UNCHANGED <<lock_holder, lock_waiters, locks, snapshot, jt, lt, bt>>
    /\ UNCHANGED tblVars
    /\ UNCHANGED <<quarantined, kicked, rp, ready>>
    /\ UNCHANGED <<detVars, licVars, secVars>>

\* invite_tracker.py lines 101-102 / 136-137: snapshot = get_json(key) or {}
InviteSnapRead(t) ==
    /\ it[t].pc = "snap_read"
    /\ it' = [it EXCEPT ![t].snap = snapshot[it[t].guild], ![t].pc = "snap_write"]
    /\ UNCHANGED <<quarantined, kicked, rp, ready>>
    /\ UNCHANGED <<detVars, licVars, trkVars, secVars>>

\* invite_tracker.py lines 103-110 / 138-139: the entry of the code is set
\* (create) or popped (delete) in the local dict, which set_json stores.
InviteSnapWrite(t) ==
    /\ it[t].pc = "snap_write"
    /\ LET old == it[t].snap
           c == it[t].code
           new == IF it[t].kind = "create"
                  THEN [x \in DOMAIN old \cup {c} |->
                           IF x = c THEN [uses |-> it[t].uses, inviter_id |-> InviterOf(c)]
                           ELSE old[x]]
                  ELSE [x \in DOMAIN old \ {c} |-> old[x]]
       IN snapshot' = [snapshot EXCEPT ![it[t].guild] = new]
    /\ it' = [it EXCEPT ![t].pc = "row"]
    /\ UNCHANGED <<lock_holder, lock_waiters, locks, platform, jt, lt, bt>>
    /\ UNCHANGED tblVars
    /\ UNCHANGED <<quarantined, kicked, rp, ready>>
    /\ UNCHANGED <<detVars, licVars, secVars>>

\* invite_tracker.py lines 112-131: the upsert of the invites row (create);
\* lines 141-149: UPDATE invites SET deleted_at = NOW() (delete), which ends
\* on_invite_delete.
InviteRow(t) ==
    /\ it[t].pc = "row"
    /\ LET k == <<it[t].guild, it[t].code>>
       IN invites' = [invites EXCEPT ![k] =
             IF it[t].kind = "create"
             THEN [exists |-> TRUE, inviter_id |-> InviterOf(it[t].code),
                   uses |-> it[t].uses, deleted |-> FALSE]
             ELSE IF invites[k].exists THEN [invites[k] EXCEPT !.deleted = TRUE]
             ELSE invites[k]]
    /\ it' = [it EXCEPT ![t].pc = IF it[t].kind = "create" THEN "is_lockdown" ELSE "done"]
    /\ UNCHANGED <<lock_holder, lock_waiters, locks, platform, snapshot, jt, lt, bt>>
    /\ UNCHANGED <<users, invite_joins, invite_leaves, user_invite_stats,
                   fraud_flags, bonus_invites>>
    /\ UNCHANGED <<quarantined, kicked, rp, ready>>
    /\ UNCHANGED <<detVars, licVars, secVars>>

\* main.py line 77: is_lockdown(invite.guild.id)
InviteLockdownCheck(t) ==
    /\ it[t].pc = "is_lockdown"
    /\ it' = [it EXCEPT ![t].pc = IF is_lockdown(it[t].guild) THEN "block" ELSE "done"]
    /\ UNCHANGED <<quarantined, kicked, rp, ready>>
    /\ UNCHANGED <<detVars, licVars, trkVars, secVars>>

\* Mutant of InviteBlock: the incident is written after a refused deletion
\* too.
InviteBlock_incident_when_refused(t, permitted) ==
    /\ it[t].pc = "block"
    /\ LET g == it[t].guild
       IN platform' = IF permitted
                      THEN [platform EXCEPT ![g] =
                               [x \in DOMAIN platform[g] \ {it[t].code} |-> platform[g][x]]]
                      ELSE platform
    /\ it' = [it EXCEPT ![t].pc = "block_incident"]
    /\ UNCHANGED <<lock_holder, lock_waiters, locks, snapshot, jt, lt, bt>>
    /\ UNCHANGED tblVars
    /\ UNCHANGED <<quarantined, kicked, rp, ready>>
    /\ UNCHANGED <<detVars, licVars, secVars>>

\* main.py lines 78-79 and 87-88: invite.delete(), which the platform may
\* refuse (discord.Forbidden, logged; no incident then).
InviteBlock(t, permitted) ==
    /\ it[t].pc = "block"
    /\ LET g == it[t].guild
       IN platform' = IF permitted
                      THEN [platform EXCEPT ![g] =
                               [x \in DOMAIN platform[g] \ {it[t].code} |-> platform[g][x]]]
                      ELSE platform
    /\ it' = [it EXCEPT ![t].pc = IF permitted THEN "block_incident" ELSE "done"]
    /\ UNCHANGED <<lock_holder, lock_waiters, locks, snapshot, jt, lt, bt>>
    /\ UNCHANGED tblVars
    /\ UNCHANGED <<quarantined, kicked, rp, ready>>
    /\ UNCHANGED <<detVars, licVars, secVars>>

\* main.py lines 80-86: the high incident invite_blocked_lockdown
InviteBlockIncident(t) ==
    /\ it[t].pc = "block_incident"
    /\ incidents' = log_incident(incidents, it[t].guild, "invite_blocked_lockdown",
                                 "high", InviterOf(it[t].code), now)
    /\ it' = [it EXCEPT ![t].pc = "done"]
    /\ UNCHANGED <<licRest, guilds>>
    /\ UNCHANGED <<quarantined, kicked, rp, ready>>
    /\ UNCHANGED <<detVars, trkVars, secVars>>

\* The steps of on_invite_create and on_invite_delete.
InviteStep(t) ==
    \/ InviteSnapRead(t)
    \/ InviteSnapWrite(t)
    \/ InviteRow(t)
    \/ InviteLockdownCheck(t)
    \/ \E permitted \in BOOLEAN : InviteBlock(t, permitted)
    \/ InviteBlockIncident(t)

\* ------------------------------------------------------------------------
\* The premium features: advanced_raid_prediction and
\* check_cross_server_blacklist
\*
\* In the runs of these functions the clock counts half hours.
\* ------------------------------------------------------------------------
\* INTERVAL '1 hour', in ticks of the clock
Hour == 2

\* weight.get(r["severity"], 1) with weight = {"low": 1, "medium": 2,
\* "high": 4, "critical": 7}
severity_weight(severity) ==
    CASE severity = "low" -> 1
      [] severity = "medium" -> 2
      [] severity = "high" -> 4
      [] severity = "critical" -> 7
      [] OTHER -> 1

\* Lines 252-260: the rows of the guild with created_at > NOW() - 1 hour, as
\* positions of the incidents table
recent_incidents(guild_id, t) ==
    {i \in 1..Len(incidents) :
        incidents[i].guild_id = guild_id /\ incidents[i].created_at > t - Hour}

\* sum(weight.get(r["severity"], 1) for r in incidents)
RECURSIVE weight_sum(_)
weight_sum(I) ==
    IF I = {} THEN 0
    ELSE LET i == CHOOSE x \in I : TRUE
         IN severity_weight(incidents[i].severity) + weight_sum(I \ {i})

\* Mutant of risk_of: the bucket bounds taken as exclusive.
risk_of_exclusive(score) ==
    IF score > 20 THEN "high" ELSE IF score > 10 THEN "medium" ELSE "low"

\* "high" if score >= 20 else "medium" if score >= 10 else "low"
risk_of(score) ==
    IF score >= 20 THEN "high" ELSE IF score >= 10 THEN "medium" ELSE "low"

\* /security raidprediction: advanced_raid_prediction(guild_id) is called.
PredictionCall(t, g) ==
    /\ rp[t].pc = "idle"
    /\ \A d \in PredictionTasks : d < t => rp[d].pc # "idle"
    /\ rp' = [rp EXCEPT ![t] = [IdlePrediction EXCEPT !.pc = "gate", !.guild = g]]
    /\ UNCHANGED <<it, quarantined, kicked, ready>>
    /\ UNCHANGED <<detVars, licVars, trkVars, secVars>>

\* Line 251: assert_premium; PremiumRequiredError leaves the function.
PredictionGate(t) ==
    /\ rp[t].pc = "gate"
    /\ rp' = [rp EXCEPT ![t].pc = IF assert_premium(rp[t].guild) THEN "fetch" ELSE "raised"]
    /\ UNCHANGED <<it, quarantined, kicked, ready>>
    /\ UNCHANGED <<detVars, licVars, trkVars, secVars>>

\* Lines 252-264: the rows of the last hour, their weighted sum and the dict
\* returned.
PredictionFetch(t) ==
    /\ rp[t].pc = "fetch"
    /\ LET rows == recent_incidents(rp[t].guild, now)
           score == weight_sum(rows)
       IN rp' = [rp EXCEPT ![t].pc = "done", ![t].fetched = TRUE,
                           ![t].result = [risk |-> risk_of(score), score |-> score,
                                          incidents_last_hour |-> Cardinality(rows)]]
    /\ UNCHANGED <<it, quarantined, kicked, ready>>
    /\ UNCHANGED <<detVars, licVars, trkVars, secVars>>

\* check_cross_server_blacklist(member) is called.  Calls take their frames
\* in the order they are made.
BlacklistCall(t, g, m) ==
    /\ jt[t].pc = "idle"
    /\ \A d \in JoinTasks : d < t => jt[d].pc # "idle"
    /\ jt' = [jt EXCEPT ![t] = [IdleJoin EXCEPT !.pc = "blacklist_gate",
                                                !.guild = g, !.member = m]]
    /\ UNCHANGED joinRest
    /\ UNCHANGED <<detVars, licVars, secVars, botVars>>

\* ------------------------------------------------------------------------
\* Specifications
\* ------------------------------------------------------------------------
NextDetect == Detect

InitDetect == DetectInit /\ LicenseIdle /\ GuildsAbsent /\ TrackerInit /\ WindowIdle /\ LockdownIdle /\ BotIdle

SpecDetect == InitDetect /\ [][NextDetect]_vars

\* The clock advances until the expiry of the licence has passed (for a
\* licence that never expires no decision depends on it), and stands still
\* while a transaction is open: NOW() is the time at which the transaction
\* began, and activate_license reads the clock once, with the row in hand.
NextLicense ==
    \/ /\ \E l \in LicenseIds : /\ premium_licenses[l].expires_at # None
                                 /\ now <= premium_licenses[l].expires_at
       /\ \A c \in Calls : act[c].pc # "intx"
       /\ Tick
    \/ \E g \in Guilds : EnsureGuildRow(g)
    \/ \E c \in Calls, g \in Guilds, k \in Keys : ActivateCall(c, g, k)
    \/ \E c \in Calls : ActivateSelect(c)
    \/ \E c \in Calls : ActivateCommit(c)

InitLicense == LicenseInit /\ DetectIdle /\ TrackerInit /\ WindowIdle /\ LockdownIdle /\ BotIdle

SpecLicense == InitLicense /\ [][NextLicense]_vars

\* The steps of on_member_join.
JoinStep(t) ==
    \/ JoinAcquire(t)
    \/ JoinEnsure(t)
    \/ JoinUpsertUser(t)
    \/ JoinFetch(t)
    \/ JoinDetect(t)
    \/ JoinSetSnapshot(t)
    \/ JoinSettings(t)
    \/ JoinPriorLeave(t)
    \/ JoinInsert(t)
    \/ JoinStats(t)
    \/ JoinInvites(t)
    \/ JoinFraud(t)

\* Joins in two guilds.
NextJoin ==
    \/ \E t \in JoinTasks, g \in {1, 2}, m \in Members, c \in AllCodes \cup {None} :
          MemberJoins(t, g, m, c)
    \/ \E t \in JoinTasks : JoinStep(t)

InitTracker == TrackerInit /\ GuildsReady /\ DetectIdle /\ LicenseIdle /\ WindowIdle /\ LockdownIdle /\ BotIdle

SpecJoin == InitTracker /\ [][NextJoin]_vars

\* The events delivered so far.
Delivered ==
    Cardinality({t \in JoinTasks : jt[t].pc # "idle"})
    + Cardinality({t \in LeaveTasks : lt[t].pc # "idle"})
    + Cardinality({t \in BonusTasks : bt[t].pc # "idle"})

\* Joins, leaves and bonus adjustments in one guild.
NextStats ==
    \/ /\ Delivered < MaxEvents
       /\ \E t \in JoinTasks, m \in Members, c \in {1, None} : MemberJoins(t, 1, m, c)
    \/ \E t \in JoinTasks : JoinStep(t)
    \/ /\ Delivered < MaxEvents
       /\ \E t \in LeaveTasks, m \in Members : LeaveEvent(t, 1, m)
    \/ \E t \in LeaveTasks : LeaveRead(t)
    \/ \E t \in LeaveTasks : LeaveInsert(t)
    \/ \E t \in LeaveTasks : LeaveStats(t)
    \/ /\ Delivered < MaxEvents
       /\ \E t \in 1..MaxBonus, u \in StatUsers, a \in BonusAmounts : BonusCall(t, 1, u, a)
    \/ \E t \in BonusTasks : BonusInsert(t)
    \/ \E t \in BonusTasks : BonusStats(t)

SpecStats == InitTracker /\ [][NextStats]_vars

\* Concurrent bonus adjustments of guild 1, and one join through invite 1
\* (whose inviter is user 11) writing the same stats table.
NextBonus ==
    \/ \E t \in BonusTasks, u \in StatUsers, a \in BonusAmounts : BonusCall(t, 1, u, a)
    \/ \E t \in BonusTasks : BonusInsert(t)
    \/ \E t \in BonusTasks : BonusStats(t)
    \/ \E m \in Members : MemberJoins(1, 1, m, 1)
    \/ JoinStep(1)

SpecBonus == InitTracker /\ [][NextBonus]_vars

\* The bot has connected with an empty guilds table: on_ready is about to
\* pass over its guilds 1 and 2, in this order.
StartupInit ==
    /\ it = [t \in InviteTasks |-> IdleInvite]
    /\ quarantined = {}
    /\ kicked = {}
    /\ rp = [t \in PredictionTasks |-> IdlePrediction]
    /\ ready = [pending |-> <<1, 2>>, pc |-> "ensure"]

InitStartup == TrackerInit /\ GuildsAbsent /\ DetectIdle /\ LicenseIdle /\ WindowIdle /\ LockdownIdle /\ StartupInit

\* The start-up pass, with one join, one leave and one /premium activate of
\* guilds 1 and 2 arriving while it runs or after it.
NextStartup ==
    \/ ReadyEnsure
    \/ \E permitted \in BOOLEAN : ReadyRebuild(permitted)
    \/ \E g \in {1, 2}, m \in Members, c \in {1, 2, None} : MemberJoins(1, g, m, c)
    \/ JoinStep(1)
    \/ \E g \in {1, 2}, m \in Members : LeaveEvent(1, g, m)
    \/ LeaveRead(1)
    \/ LeaveInsert(1)
    \/ LeaveStats(1)
    \/ \E g \in {1, 2} : ActivateCall(1, g, "good")
    \/ ActivateSelect(1)
    \/ ActivateCommit(1)

SpecStartup == InitStartup /\ [][NextStartup]_vars

\* Joins of guild 1 and leaves of guilds 1 and 2.
NextRejoin ==
    \/ /\ Delivered < MaxEvents
       /\ \E t \in JoinTasks, m \in Members, c \in {1, None} : MemberJoins(t, 1, m, c)
    \/ \E t \in JoinTasks : JoinStep(t)
    \/ /\ Delivered < MaxEvents
       /\ \E t \in LeaveTasks, g \in {1, 2}, m \in Members : LeaveEvent(t, g, m)
    \/ \E t \in LeaveTasks : LeaveRead(t)
    \/ \E t \in LeaveTasks : LeaveInsert(t)
    \/ \E t \in LeaveTasks : LeaveStats(t)

SpecRejoin == InitTracker /\ [][NextRejoin]_vars

\* Two joins of guild 1 through invites 1 and 3 while an invite event of the
\* guild is handled: invite 4 is created or invite 3 is deleted.  No invite
\* is created twice, so the use counts of the platform only grow.
NextRollback ==
    \/ \E t \in {1, 2}, m \in Members, c \in {1, 3} : MemberJoins(t, 1, m, c)
    \/ \E t \in {1, 2} : JoinStep(t)
    \/ InviteCreated(1, 1, 4)
    \/ InviteDeleted(1, 1, 3)
    \/ InviteSnapRead(1)
    \/ InviteSnapWrite(1)
    \/ InviteRow(1)
    \/ InviteLockdownCheck(1)

SpecRollback == InitTracker /\ [][NextRollback]_vars

\* Two joins of guild 1, each call inside the locked section completing or
\* raising.
NextFail ==
    \/ \E t \in {1, 2}, m \in Members, c \in {1, None} : MemberJoins(t, 1, m, c)
    \/ \E t \in {1, 2} : JoinStep(t)
    \/ \E t \in {1, 2} : JoinRaises(t)

SpecFail == InitTracker /\ [][NextFail]_vars

\* The event loop runs every task that is ready: a join that can take a step
\* takes one, which completes or raises.
SpecFailFair ==
    /\ SpecFail
    /\ \A t \in {1, 2} : WF_vars(JoinStep(t) \/ JoinRaises(t))

\* Guild 1 has a row whose settings differ from the defaults: it is locked
\* down or not, premium (with licence and expiry) or not, kicks young
\* accounts or not, and has its own thresholds, windows, minimum account age
\* and log channel.  Guild 2 has the row of a guild just added, guild 3 none.
EnsureInit ==
    \E locked \in BOOLEAN, premium \in BOOLEAN, kick \in BOOLEAN :
        guilds = [g \in Guilds |->
                     IF g = 1
                     THEN [NewGuildRow EXCEPT
                              !.lockdown_enabled = locked,
                              !.is_premium = premium,
                              !.premium_license_id = IF premium THEN 1 ELSE None,
                              !.premium_until = IF premium THEN 5 ELSE None,
                              !.auto_kick_young_accounts = kick,
                              !.join_burst_count = 3,
                              !.join_burst_window_seconds = 30,
                              !.link_spam_threshold = 2,
                              !.link_spam_window_seconds = 20,
                              !.min_account_age_hours = 48,
                              !.security_log_channel_id = 41]
                     ELSE IF g = 2 THEN NewGuildRow ELSE NoGuildRow]

InitEnsure == TrackerInit /\ EnsureInit /\ DetectIdle /\ LicenseIdle /\ WindowIdle /\ LockdownIdle /\ StartupInit

\* ensure_guild_row at start-up, on a join and for a renamed guild.
NextEnsure ==
    \/ \E g \in Guilds, name \in GuildNames : EnsureCall(g, name)
    \/ ReadyEnsure
    \/ \E permitted \in BOOLEAN : ReadyRebuild(permitted)
    \/ \E g \in {1, 2}, m \in Members, c \in {1, None} : MemberJoins(1, g, m, c)
    \/ JoinStep(1)

SpecEnsure == InitEnsure /\ [][NextEnsure]_vars

\* Guilds 1 and 2 have their rows and are not premium; the licence has room
\* for both and expires at time 1 or never; member 31 is on the cross-server
\* blacklist through a flag of guild 2.
LapseInit ==
    /\ now = 1
    /\ \E expires_at \in {None, 1} :
          premium_licenses = [l \in LicenseIds |->
              [key_hash |-> hash_key("good"), max_guilds |-> 2, expires_at |-> expires_at,
               is_active |-> TRUE, activated_guild_ids |-> <<>>]]
    /\ lic_lock = [l \in LicenseIds |-> None]
    /\ guilds = [g \in Guilds |-> IF g = 3 THEN NoGuildRow ELSE NewGuildRow]
    /\ incidents = <<>>
    /\ act = [c \in Calls |-> IdleCall]
    /\ lock_holder = [g \in Guilds |-> None]
    /\ lock_waiters = [g \in Guilds |-> <<>>]
    /\ locks = <<>>
    /\ platform = [g \in Guilds |-> [c \in CodesOf(g) |-> 0]]
    /\ snapshot = [g \in Guilds |->
                      [c \in CodesOf(g) |-> [uses |-> 0, inviter_id |-> InviterOf(c)]]]
    /\ jt = [t \in JoinTasks |-> IdleJoin]
    /\ lt = [t \in LeaveTasks |-> IdleLeave]
    /\ bt = [t \in BonusTasks |-> IdleBonus]
    /\ users = {}
    /\ invite_joins = <<>>
    /\ invite_leaves = <<>>
    /\ user_invite_stats = [k \in Guilds \X StatUsers |-> NoStatsRow]
    /\ invites = [k \in Guilds \X AllCodes |-> NoInviteRow]
    /\ fraud_flags = <<[guild_id |-> 2, member_id |-> 31,
                        reason |-> "cross_server_blacklist", score |-> 10000]>>
    /\ bonus_invites = <<>>

InitLapse == LapseInit /\ DetectIdle /\ WindowIdle /\ LockdownIdle /\ BotIdle

\* A licence is activated for guild 1 or 2, the clock goes on, and the
\* premium features are called for these guilds.
NextLapse ==
    \/ Tick
    \/ \E g \in {1, 2} : ActivateCall(1, g, "good")
    \/ ActivateSelect(1)
    \/ ActivateCommit(1)
    \/ \E g \in {1, 2} : PredictionCall(1, g)
    \/ PredictionGate(1)
    \/ PredictionFetch(1)
    \/ \E g \in {1, 2}, m \in Members : BlacklistCall(1, g, m)
    \/ BlacklistGate(1)
    \/ BlacklistLookup(1)
    \/ BlacklistIncident(1)

SpecLapse == InitLapse /\ [][NextLapse]_vars

\* Values of min_account_age_hours: no minimum, minima below, between and
\* above the members' ages, the default, and multiples of 32.
MinAges == {0, 1, 11, 32, 64, default_min_account_age_hours, 101, 128}

FraudInit ==
    /\ TrackerInit
    /\ now = 1
    /\ premium_licenses = [l \in LicenseIds |->
          [key_hash |-> hash_key("good"), max_guilds |-> 1, expires_at |-> None,
           is_active |-> TRUE, activated_guild_ids |-> <<>>]]
    /\ lic_lock = [l \in LicenseIds |-> None]
    /\ incidents = <<>>
    /\ act = [c \in Calls |-> IdleCall]
    /\ \E min_age \in MinAges :
          guilds = [g \in Guilds |->
                       IF g = 1 THEN [NewGuildRow EXCEPT !.min_account_age_hours = min_age]
                       ELSE NewGuildRow]

InitFraud == FraudInit /\ DetectIdle /\ WindowIdle /\ LockdownIdle /\ BotIdle

\* Joins of guild 1 under each minimum account age.
NextFraud ==
    \/ \E t \in JoinTasks, m \in FraudMembers, c \in {1, None} : MemberJoins(t, 1, m, c)
    \/ \E t \in JoinTasks : JoinStep(t)

SpecFraud == InitFraud /\ [][NextFraud]_vars

\* Guild 1 has a settings row whose windows are 0, one tick or the largest
\* window and whose thresholds are 2; guild 3 has no settings row.
WindowInit ==
    \E w \in {0, 1, MaxWindow} :
        guilds = [g \in Guilds |->
                     IF g = 1
                     THEN [NewGuildRow EXCEPT !.join_burst_window_seconds = w,
                                              !.join_burst_count = 2,
                                              !.link_spam_window_seconds = w,
                                              !.link_spam_threshold = 2]
                     ELSE IF g = 2 THEN NewGuildRow ELSE NoGuildRow]

InitWindow == WindowInit /\ WindowIdle /\ DetectIdle /\ LicenseIdle /\ TrackerInit /\ LockdownIdle /\ BotIdle

\* Joins counted and messages of member 31 posted in guild 1, burst checks
\* for the guild without a settings row, and the clock.
NextWindow ==
    \/ Tick
    \/ \E t \in WindowTasks, g \in {1, 3} : BurstCall(t, g)
    \/ \E t \in WindowTasks : LinkMessage(t, 1, 31, FALSE, TRUE)
    \/ \E t \in WindowTasks : WindowSettings(t)
    \/ \E t \in WindowTasks : WindowPipeline(t)
    \/ \E t \in WindowTasks, permitted \in BOOLEAN : LinkTimeout(t, permitted)
    \/ \E t \in WindowTasks : LinkIncident(t)

SpecWindow == InitWindow /\ [][NextWindow]_vars

\* Guild 1 has a settings row whose windows are 30 or 90 seconds and whose
\* thresholds are 2.
ExpiryInit ==
    \E w \in {30, 90} :
        guilds = [g \in Guilds |->
                     IF g = 1
                     THEN [NewGuildRow EXCEPT !.join_burst_window_seconds = w,
                                              !.join_burst_count = 2,
                                              !.link_spam_window_seconds = w,
                                              !.link_spam_threshold = 2]
                     ELSE NoGuildRow]

InitExpiry == ExpiryInit /\ WindowIdle /\ DetectIdle /\ LicenseIdle /\ TrackerInit /\ LockdownIdle /\ BotIdle

\* Two calls, each a join counted or a message of member 31 posted in guild
\* 1, with the clock advancing by half a minute or a minute at any point.
NextExpiry ==
    \/ \E d \in {30, 60} : now + d <= MaxClock /\ Advance(d)
    \/ \E t \in {1, 2} : BurstCall(t, 1)
    \/ \E t \in {1, 2} : LinkMessage(t, 1, 31, FALSE, TRUE)
    \/ \E t \in {1, 2} : WindowSettings(t)
    \/ \E t \in {1, 2} : WindowPipeline(t)
    \/ \E t \in {1, 2}, permitted \in BOOLEAN : LinkTimeout(t, permitted)
    \/ \E t \in {1, 2} : LinkIncident(t)

SpecExpiry == InitExpiry /\ [][NextExpiry]_vars

\* Guilds 1 and 2 have a settings row with link threshold 2 and a window of
\* one tick or of the whole run.
LinksInit ==
    \E w \in {1, MaxWindow} :
        guilds = [g \in Guilds |->
                     IF g \in {1, 2}
                     THEN [NewGuildRow EXCEPT !.link_spam_window_seconds = w,
                                              !.link_spam_threshold = 2]
                     ELSE NoGuildRow]

InitLinks == LinksInit /\ WindowIdle /\ DetectIdle /\ LicenseIdle /\ TrackerInit /\ LockdownIdle /\ BotIdle

\* The messages delivered: links of two members in guild 1, of one of them in
\* guild 2, a link of a bot, a message without link, a direct message.
LinkMessages ==
    {[guild |-> 1, author |-> 31, is_bot |-> FALSE, has_link |-> TRUE],
     [guild |-> 1, author |-> 32, is_bot |-> FALSE, has_link |-> TRUE],
     [guild |-> 2, author |-> 31, is_bot |-> FALSE, has_link |-> TRUE],
     [guild |-> 1, author |-> 31, is_bot |-> TRUE, has_link |-> TRUE],
     [guild |-> 1, author |-> 31, is_bot |-> FALSE, has_link |-> FALSE],
     [guild |-> None, author |-> 31, is_bot |-> FALSE, has_link |-> TRUE]}

\* Messages handled one after the other, and the clock.
NextLinks ==
    \/ Tick
    \/ /\ \A d \in WindowTasks : wt[d].pc \in {"idle", "done"}
       /\ \E t \in WindowTasks, msg \in LinkMessages :
             LinkMessage(t, msg.guild, msg.author, msg.is_bot, msg.has_link)
    \/ \E t \in WindowTasks : WindowSettings(t)
    \/ \E t \in WindowTasks : WindowPipeline(t)
    \/ \E t \in WindowTasks, permitted \in BOOLEAN : LinkTimeout(t, permitted)
    \/ \E t \in WindowTasks : LinkIncident(t)

SpecLinks == InitLinks /\ [][NextLinks]_vars

\* Guilds 1 and 2 have their settings row; the lockdown slowmode of guild 1
\* and the channels the bot may edit are drawn.
LockdownInit ==
    /\ \E sm \in LockdownSlowmodes :
          guilds = [g \in Guilds |->
                       IF g = 1 THEN [NewGuildRow EXCEPT !.lockdown_slowmode_seconds = sm]
                       ELSE IF g = 2 THEN NewGuildRow ELSE NoGuildRow]
    /\ channels = [g \in Guilds |-> [c \in ChannelIds(g) |-> InitialSlowmode(c)]]
    /\ slowmode_backup = [g \in Guilds |-> NoBackup]
    /\ lk = [t \in LockdownTasks |-> IdleLockdown]

InitLockdown == LockdownInit /\ WindowIdle /\ DetectIdle /\ LicenseIdle /\ TrackerInit /\ BotIdle

\* Lockdown commands in guild 1 and the expiry of the backup.
NextLockdown ==
    \/ \E t \in LockdownTasks, enabled \in BOOLEAN : LockdownCall(t, 1, enabled)
    \/ \E t \in LockdownTasks : LockdownUpdate(t)
    \/ \E t \in LockdownTasks : EnableSettings(t)
    \/ \E t \in LockdownTasks, permitted \in BOOLEAN : EnableChannel(t, permitted)
    \/ \E t \in LockdownTasks : EnableBackup(t)
    \/ \E t \in LockdownTasks, permitted \in BOOLEAN : EnableListInvites(t, permitted)
    \/ \E t \in LockdownTasks, permitted \in BOOLEAN : EnableDeleteInvite(t, permitted)
    \/ \E t \in LockdownTasks : DisableReadBackup(t)
    \/ \E t \in LockdownTasks, permitted \in BOOLEAN : DisableChannel(t, permitted)
    \/ \E t \in LockdownTasks : LockdownIncident(t)
    \/ BackupExpires(1)

SpecLockdown == InitLockdown /\ [][NextLockdown]_vars

\* Two lockdown commands in guild 1, the expiry of the backup and the
\* creation of a channel.
NextUnlock ==
    \/ \E t \in {1, 2}, enabled \in BOOLEAN : LockdownCall(t, 1, enabled)
    \/ \E t \in {1, 2} : LockdownUpdate(t)
    \/ \E t \in {1, 2} : EnableSettings(t)
    \/ \E t \in {1, 2}, permitted \in BOOLEAN : EnableChannel(t, permitted)
    \/ \E t \in {1, 2} : EnableBackup(t)
    \/ \E t \in {1, 2}, permitted \in BOOLEAN : EnableListInvites(t, permitted)
    \/ \E t \in {1, 2}, permitted \in BOOLEAN : EnableDeleteInvite(t, permitted)
    \/ \E t \in {1, 2} : DisableReadBackup(t)
    \/ \E t \in {1, 2}, permitted \in BOOLEAN : DisableChannel(t, permitted)
    \/ \E t \in {1, 2} : LockdownIncident(t)
    \/ BackupExpires(1)
    \/ \E s \in {0, 5} : ChannelCreated(1, 44, s)

SpecUnlock == InitLockdown /\ [][NextUnlock]_vars

\* The commands of a run of SpecRelock.
RelockTasks == {1, 2, 3}

\* As LockdownInit, with a frame for each of three commands.
RelockInit ==
    /\ \E sm \in LockdownSlowmodes :
          guilds = [g \in Guilds |->
                       IF g = 1 THEN [NewGuildRow EXCEPT !.lockdown_slowmode_seconds = sm]
                       ELSE IF g = 2 THEN NewGuildRow ELSE NoGuildRow]
    /\ channels = [g \in Guilds |-> [c \in ChannelIds(g) |-> InitialSlowmode(c)]]
    /\ slowmode_backup = [g \in Guilds |-> NoBackup]
    /\ lk = [t \in RelockTasks |-> IdleLockdown]

InitRelock == RelockInit /\ WindowIdle /\ DetectIdle /\ LicenseIdle /\ TrackerInit /\ BotIdle

\* Three lockdown commands in guild 1, issued one after the other, and an
\* administrator who sets the slowmode of channel 42 between two commands or
\* after the last.
NextRelock ==
    \/ \E t \in RelockTasks, enabled \in BOOLEAN : LockdownCall(t, 1, enabled)
    \/ \E t \in RelockTasks : LockdownUpdate(t)
    \/ \E t \in RelockTasks : EnableSettings(t)
    \/ \E t \in RelockTasks, permitted \in BOOLEAN : EnableChannel(t, permitted)
    \/ \E t \in RelockTasks : EnableBackup(t)
    \/ \E t \in RelockTasks, permitted \in BOOLEAN : EnableListInvites(t, permitted)
    \/ \E t \in RelockTasks, permitted \in BOOLEAN : EnableDeleteInvite(t, permitted)
    \/ \E t \in RelockTasks : DisableReadBackup(t)
    \/ \E t \in RelockTasks, permitted \in BOOLEAN : DisableChannel(t, permitted)
    \/ \E t \in RelockTasks : LockdownIncident(t)
    \/ BackupExpires(1)
    \/ /\ lk[1].pc = "done"
       /\ \A t \in RelockTasks : lk[t].pc \in {"idle", "done"}
       /\ SlowmodeEdited(1, 42, 30)

SpecRelock == InitRelock /\ [][NextRelock]_vars

\* Two lockdown commands in guild 1, one after the other, and a member who
\* creates invite 4 before, between, after or while they run: the handler of
\* the event runs concurrently with set_lockdown.
NextGuard ==
    \/ \E t \in {1, 2}, enabled \in BOOLEAN : LockdownCall(t, 1, enabled)
    \/ \E t \in {1, 2} : LockdownUpdate(t)
    \/ \E t \in {1, 2} : EnableSettings(t)
    \/ \E t \in {1, 2} : EnableChannel(t, TRUE)
    \/ \E t \in {1, 2} : EnableBackup(t)
    \/ \E t \in {1, 2}, permitted \in BOOLEAN : EnableListInvites(t, permitted)
    \/ \E t \in {1, 2}, permitted \in BOOLEAN : EnableDeleteInvite(t, permitted)
    \/ \E t \in {1, 2} : DisableReadBackup(t)
    \/ \E t \in {1, 2} : DisableChannel(t, TRUE)
    \/ \E t \in {1, 2} : LockdownIncident(t)
    \/ InviteCreated(1, 1, 4)
    \/ InviteSnapRead(1)
    \/ InviteSnapWrite(1)
    \/ InviteRow(1)
    \/ InviteLockdownCheck(1)
    \/ \E permitted \in BOOLEAN : InviteBlock(1, permitted)
    \/ InviteBlockIncident(1)

SpecGuard == InitLockdown /\ [][NextGuard]_vars

\* The bot at work in guild 1, which is premium, kicks young accounts or not
\* and takes every join for a join burst (join_burst_count is 1); a member of guild 2
\* is on the cross-server blacklist.
BotInit ==
    /\ \E kick \in BOOLEAN :
          guilds = [g \in Guilds |->
                       IF g = 1
                       THEN [NewGuildRow EXCEPT !.join_burst_count = 1,
                                                !.join_burst_window_seconds = 1,
                                                !.link_spam_threshold = 1,
                                                !.link_spam_window_seconds = 1,
                                                !.auto_kick_young_accounts = kick,
                                                !.is_premium = TRUE,
                                                !.premium_license_id = 1]
                       ELSE IF g = 2 THEN NewGuildRow ELSE NoGuildRow]
    /\ now = 1
    /\ premium_licenses = [l \in LicenseIds |->
          [key_hash |-> hash_key("good"), max_guilds |-> 1, expires_at |-> None,
           is_active |-> TRUE, activated_guild_ids |-> <<1>>]]
    /\ lic_lock = [l \in LicenseIds |-> None]
    /\ incidents = <<>>
    /\ act = [c \in Calls |-> IdleCall]
    /\ lock_holder = [g \in Guilds |-> None]
    /\ lock_waiters = [g \in Guilds |-> <<>>]
    /\ locks = <<>>
    /\ platform = [g \in Guilds |-> [c \in CodesOf(g) |-> 0]]
    /\ snapshot = [g \in Guilds |->
                      [c \in CodesOf(g) |-> [uses |-> 0, inviter_id |-> InviterOf(c)]]]
    /\ jt = [t \in JoinTasks |-> IdleJoin]
    /\ lt = [t \in LeaveTasks |-> IdleLeave]
    /\ bt = [t \in BonusTasks |-> IdleBonus]
    /\ users = {}
    /\ invite_joins = <<>>
    /\ invite_leaves = <<>>
    /\ user_invite_stats = [k \in Guilds \X StatUsers |-> NoStatsRow]
    /\ invites = [k \in Guilds \X AllCodes |-> NoInviteRow]
    /\ fraud_flags = <<[guild_id |-> 2, member_id |-> 32,
                        reason |-> "cross_server_blacklist", score |-> 10000]>>
    /\ bonus_invites = <<>>

InitBot == BotInit /\ DetectIdle /\ WindowIdle /\ LockdownIdle /\ BotIdle

\* The handlers that have been entered and have not returned.
InFlight ==
    Cardinality({t \in JoinTasks : jt[t].pc \notin {"idle", "handled"}})
    + Cardinality({t \in LeaveTasks : lt[t].pc \notin {"idle", "done"}})
    + Cardinality({t \in WindowTasks : wt[t].pc \notin {"idle", "done"}})
    + Cardinality({t \in LockdownTasks : lk[t].pc \notin {"idle", "done"}})
    + Cardinality({t \in InviteTasks : it[t].pc \notin {"idle", "done"}})

\* The events and commands delivered so far.
BotDelivered ==
    Cardinality({t \in JoinTasks : jt[t].pc # "idle"})
    + Cardinality({t \in LeaveTasks : lt[t].pc # "idle"})
    + Cardinality({t \in WindowTasks : wt[t].pc # "idle"})
    + Cardinality({t \in LockdownTasks : lk[t].pc # "idle"})
    + Cardinality({t \in InviteTasks : it[t].pc # "idle"})

\* The handlers of a run execute one after the other: an event is delivered
\* when the handler before it has returned.
MayDeliver == BotDelivered < MaxEvents /\ InFlight = 0

\* Joins, leaves, messages, invite events and lockdown commands in guild 1,
\* and the bot is added to guild 3;
\* the platform refuses the bot no edit of the lockdown (SpecLockdown covers
\* the refusals) and the run is short enough for the clock to show one time.
NextBot ==
    \/ EnsureGuildRow(3)
    \/ /\ MayDeliver
       /\ \E t \in JoinTasks, m \in Members, c \in {1, None} : MemberJoins(t, 1, m, c)
    \/ \E t \in JoinTasks : JoinStep(t)
    \/ \E t \in JoinTasks : JoinChecksStep(t)
    \/ /\ MayDeliver
       /\ \E t \in LeaveTasks : LeaveEvent(t, 1, 31)
    \/ \E t \in LeaveTasks : LeaveRead(t)
    \/ \E t \in LeaveTasks : LeaveInsert(t)
    \/ \E t \in LeaveTasks : LeaveStats(t)
    \/ /\ MayDeliver
       /\ \E t \in WindowTasks : LinkMessage(t, 1, 31, FALSE, TRUE)
    \/ \E t \in WindowTasks : WindowSettings(t)
    \/ \E t \in WindowTasks : WindowPipeline(t)
    \/ \E t \in WindowTasks, permitted \in BOOLEAN : LinkTimeout(t, permitted)
    \/ \E t \in WindowTasks : LinkIncident(t)
    \/ /\ MayDeliver
       /\ \E t \in InviteTasks : InviteCreated(t, 1, 4)
    \/ /\ MayDeliver
       /\ \E t \in InviteTasks : InviteDeleted(t, 1, 1)
    \/ \E t \in InviteTasks : InviteStep(t)
    \/ /\ MayDeliver
       /\ \E t \in LockdownTasks, enabled \in BOOLEAN : LockdownCall(t, 1, enabled)
    \/ \E t \in LockdownTasks : LockdownUpdate(t)
    \/ \E t \in LockdownTasks : EnableSettings(t)
    \/ \E t \in LockdownTasks : EnableChannel(t, TRUE)
    \/ \E t \in LockdownTasks : EnableBackup(t)
    \/ \E t \in LockdownTasks : EnableListInvites(t, TRUE)
    \/ \E t \in LockdownTasks : EnableDeleteInvite(t, TRUE)
    \/ \E t \in LockdownTasks : DisableReadBackup(t)
    \/ \E t \in LockdownTasks : DisableChannel(t, TRUE)
    \/ \E t \in LockdownTasks : LockdownIncident(t)

SpecBot == InitBot /\ [][NextBot]_vars

\* enforce_account_age(member) is called for a member of guild g, as main.py
\* line 111 does after the burst check.
EnforceCall(t, g, m) ==
    /\ jt[t].pc = "idle"
    /\ \A d \in JoinTasks : d < t => jt[d].pc # "idle"
    /\ jt' = [jt EXCEPT ![t] = [IdleJoin EXCEPT !.pc = "age_settings",
                                                !.guild = g, !.member = m]]
    /\ UNCHANGED joinRest
    /\ UNCHANGED <<detVars, licVars, secVars, botVars>>

\* The names a guild's quarantine_role_name column is drawn from: the
\* default, none (the configured default applies) and a role the guild lacks.
RoleNames == {"Quarantine", "", "Jail"}

\* Guild 1 is premium, locked down or not, kicks young accounts or not, names
\* one of RoleNames and takes every join for a burst; guild 2 has no role
\* "Quarantine" and its minimum account age is the age of member 33; guild 3
\* has no row.  A member of guild 2 is on
\* the cross-server blacklist.
ChecksInit ==
    /\ \E kick \in BOOLEAN, locked \in BOOLEAN, role \in RoleNames :
          guilds = [g \in Guilds |->
                       IF g = 1
                       THEN [NewGuildRow EXCEPT !.join_burst_count = 1,
                                                !.join_burst_window_seconds = 1,
                                                !.auto_kick_young_accounts = kick,
                                                !.lockdown_enabled = locked,
                                                !.quarantine_role_name = role,
                                                !.is_premium = TRUE,
                                                !.premium_license_id = 1]
                       ELSE IF g = 2
                       THEN [NewGuildRow EXCEPT !.lockdown_enabled = locked,
                                                !.min_account_age_hours = AgeHours(33)]
                       ELSE NoGuildRow]
    /\ now = 1
    /\ premium_licenses = [l \in LicenseIds |->
          [key_hash |-> hash_key("good"), max_guilds |-> 1, expires_at |-> None,
           is_active |-> TRUE, activated_guild_ids |-> <<1>>]]
    /\ lic_lock = [l \in LicenseIds |-> None]
    /\ incidents = <<>>
    /\ act = [c \in Calls |-> IdleCall]
    /\ lock_holder = [g \in Guilds |-> None]
    /\ lock_waiters = [g \in Guilds |-> <<>>]
    /\ locks = <<>>
    /\ platform = [g \in Guilds |-> [c \in CodesOf(g) |-> 0]]
    /\ snapshot = [g \in Guilds |->
                      [c \in CodesOf(g) |-> [uses |-> 0, inviter_id |-> InviterOf(c)]]]
    /\ jt = [t \in JoinTasks |-> IdleJoin]
    /\ lt = [t \in LeaveTasks |-> IdleLeave]
    /\ bt = [t \in BonusTasks |-> IdleBonus]
    /\ users = {}
    /\ invite_joins = <<>>
    /\ invite_leaves = <<>>
    /\ user_invite_stats = [k \in Guilds \X StatUsers |-> NoStatsRow]
    /\ invites = [k \in Guilds \X AllCodes |-> NoInviteRow]
    /\ fraud_flags = <<[guild_id |-> 2, member_id |-> 32,
                        reason |-> "cross_server_blacklist", score |-> 10000]>>
    /\ bonus_invites = <<>>

InitChecks == ChecksInit /\ DetectIdle /\ WindowIdle /\ LockdownIdle /\ BotIdle

\* One member joins guild 1 or 2 and main.py's on_member_join runs to its
\* end, or enforce_account_age is called for a member of any guild.
NextChecks ==
    \/ \E g \in {1, 2}, m \in Members, c \in {1, None} : MemberJoins(1, g, m, c)
    \/ JoinStep(1)
    \/ JoinChecksStep(1)
    \/ \E g \in Guilds, m \in FraudMembers : EnforceCall(1, g, m)

SpecChecks == InitChecks /\ [][NextChecks]_vars

\* One member joins guild 1 or 2; the platform lists the guild's invites or
\* refuses (the bot lacks Manage Server there), and main.py's on_member_join
\* runs as far as it gets.
NextDenied ==
    \/ \E g \in {1, 2}, m \in Members, c \in {1, None} : MemberJoins(1, g, m, c)
    \/ JoinStep(1)
    \/ JoinChecksStep(1)
    \/ /\ jt[1].pc = "fetch"
       /\ JoinRaises(1)

SpecDenied == InitChecks /\ [][NextDenied]_vars

\* n copies of a row
Repeat(row, n) == [i \in 1..n |-> row]

Severities == {"low", "medium", "high", "critical"}

\* The incidents table with n[s] incidents of severity s written for guild 1
\* within the last hour, after one written for it exactly an hour ago and a
\* recent one of guild 2.
IncidentsOf(n, t) ==
    <<[guild_id |-> 1, incident_type |-> "lockdown_enabled", severity |-> "critical",
       actor_id |-> None, created_at |-> t - Hour],
      [guild_id |-> 2, incident_type |-> "join_burst_detected", severity |-> "critical",
       actor_id |-> None, created_at |-> t]>>
    \o Repeat([guild_id |-> 1, incident_type |-> "premium_activated", severity |-> "low",
               actor_id |-> AdminOf(1), created_at |-> t - 1], n["low"])
    \o Repeat([guild_id |-> 1, incident_type |-> "young_account_detected",
               severity |-> "medium", actor_id |-> 31, created_at |-> t - 1], n["medium"])
    \o Repeat([guild_id |-> 1, incident_type |-> "link_spam_timeout", severity |-> "high",
               actor_id |-> 31, created_at |-> t], n["high"])
    \o Repeat([guild_id |-> 1, incident_type |-> "join_burst_detected",
               severity |-> "critical", actor_id |-> None, created_at |-> t], n["critical"])

\* Guild 1 is premium or not, guild 2 is not, guild 3 has no settings row.
PremiumDrawn ==
    \E premium \in BOOLEAN :
        guilds = [g \in Guilds |->
                     IF g = 1 THEN [NewGuildRow EXCEPT !.is_premium = premium]
                     ELSE IF g = 2 THEN NewGuildRow ELSE NoGuildRow]

GateInit ==
    /\ PremiumDrawn
    /\ now = MaxTime
    /\ \E n \in [Severities -> 0..MaxIncidents] :
          /\ n["low"] + n["medium"] + n["high"] + n["critical"] <= MaxIncidents
          /\ incidents = IncidentsOf(n, MaxTime)
    /\ premium_licenses = [l \in LicenseIds |->
          [key_hash |-> hash_key("good"), max_guilds |-> 1, expires_at |-> None,
           is_active |-> TRUE, activated_guild_ids |-> <<>>]]
    /\ lic_lock = [l \in LicenseIds |-> None]
    /\ act = [c \in Calls |-> IdleCall]

InitGate == GateInit /\ DetectIdle /\ TrackerInit /\ WindowIdle /\ LockdownIdle /\ BotIdle

\* Calls of advanced_raid_prediction for the three guilds.
NextGate ==
    \/ \E t \in PredictionTasks, g \in Guilds : PredictionCall(t, g)
    \/ \E t \in PredictionTasks : PredictionGate(t)
    \/ \E t \in PredictionTasks : PredictionFetch(t)

SpecGate == InitGate /\ [][NextGate]_vars

\* Member 32 has a young_account flag in guild 1; member 31 is or is not on
\* the cross-server blacklist, through a flag of guild 2.
BlacklistInit ==
    /\ PremiumDrawn
    /\ now = 1
    /\ incidents = <<>>
    /\ premium_licenses = [l \in LicenseIds |->
          [key_hash |-> hash_key("good"), max_guilds |-> 1, expires_at |-> None,
           is_active |-> TRUE, activated_guild_ids |-> <<>>]]
    /\ lic_lock = [l \in LicenseIds |-> None]
    /\ act = [c \in Calls |-> IdleCall]
    /\ lock_holder = [g \in Guilds |-> None]
    /\ lock_waiters = [g \in Guilds |-> <<>>]
    /\ locks = <<>>
    /\ platform = [g \in Guilds |-> [c \in CodesOf(g) |-> 0]]
    /\ snapshot = [g \in Guilds |->
                      [c \in CodesOf(g) |-> [uses |-> 0, inviter_id |-> InviterOf(c)]]]
    /\ jt = [t \in JoinTasks |-> IdleJoin]
    /\ lt = [t \in LeaveTasks |-> IdleLeave]
    /\ bt = [t \in BonusTasks |-> IdleBonus]
    /\ users = {}
    /\ invite_joins = <<>>
    /\ invite_leaves = <<>>
    /\ user_invite_stats = [k \in Guilds \X StatUsers |-> NoStatsRow]
    /\ invites = [k \in Guilds \X AllCodes |-> NoInviteRow]
    /\ \E listed \in BOOLEAN :
          fraud_flags =
             <<[guild_id |-> 1, member_id |-> 32, reason |-> "young_account",
                score |-> 0]>>
             \o (IF listed
                 THEN <<[guild_id |-> 2, member_id |-> 31,
                         reason |-> "cross_server_blacklist", score |-> 10000]>>
                 ELSE <<>>)
    /\ bonus_invites = <<>>

InitBlacklist == BlacklistInit /\ DetectIdle /\ WindowIdle /\ LockdownIdle /\ BotIdle

\* Calls of check_cross_server_blacklist for the members of the three guilds.
NextBlacklist ==
    \/ \E t \in JoinTasks, g \in Guilds, m \in Members : BlacklistCall(t, g, m)
    \/ \E t \in JoinTasks : BlacklistGate(t)
    \/ \E t \in JoinTasks : BlacklistLookup(t)
    \/ \E t \in JoinTasks : BlacklistIncident(t)

SpecBlacklist == InitBlacklist /\ [][NextBlacklist]_vars

\* ---- claims about _detect_used_invite -----------------------------------
\* Positions of `current` whose use count exceeds the previous one (0 when
\* the code is absent from `previous`).
PositiveDelta ==
    {i \in 1..Len(det_current) :
        det_current[i].uses >
            (IF det_current[i].code \in DOMAIN det_previous
             THEN det_previous[det_current[i].code].uses ELSE 0)}

DeltaAt(i) ==
    det_current[i].uses -
        (IF det_current[i].code \in DOMAIN det_previous
         THEN det_previous[det_current[i].code].uses ELSE 0)

\* C6: when exactly one code of the current snapshot has a use count above
\* its previous count (0 when absent), the result is that code, that code's
\* inviter from the current snapshot, confidence 0.96, reason "single_delta".
C6_SingleDelta ==
    (det_done /\ Cardinality(PositiveDelta) = 1) =>
        \A i \in PositiveDelta :
            det_result = [invite_code |-> det_current[i].code,
                          inviter_id |-> det_current[i].inviter_id,
                          confidence |-> 96,
                          reason |-> "single_delta"]

\* The single increased code is not the first of several codes, is absent
\* from the previous snapshot, and the function has run.
C6_Witness ==
    /\ det_done
    /\ Len(det_current) >= 2
    /\ PositiveDelta = {2}
    /\ 2 \notin DOMAIN det_previous
    /\ det_result.invite_code = 2

\* C7: when no code of the current snapshot has a positive delta (empty
\* current snapshot and vanished codes included), the result is code null,
\* inviter null, confidence 0.2, reason "no_invite_delta".
C7_NoDelta ==
    (det_done /\ PositiveDelta = {}) =>
        det_result = [invite_code |-> None, inviter_id |-> None,
                      confidence |-> 20, reason |-> "no_invite_delta"]

\* No delta although the current snapshot holds used codes and a code of the
\* previous snapshot has vanished.
C7_Witness ==
    /\ det_done
    /\ PositiveDelta = {}
    /\ Len(det_current) = 2
    /\ \A i \in 1..2 : det_current[i].uses > 0
    /\ 3 \in DOMAIN det_previous
    /\ det_result.reason = "no_invite_delta"

\* 0.75 - 0.08 * (n - 1) floored at 0.45, in hundredths, written out per n.
ExpectedMultiConfidence(n) ==
    CASE n = 2 -> 67
      [] n = 3 -> 59
      [] n = 4 -> 51
      [] OTHER -> 45

\* C8: with N > 1 positive deltas the confidence is max(0.45, 0.75-0.08(N-1))
\* with reason "multi_delta"; it is 0.67 at N = 2, 0.45 for every N >= 5, and
\* never increases with N.
C8_MultiConfidence ==
    /\ (det_done /\ Cardinality(PositiveDelta) > 1) =>
          /\ det_result.reason = "multi_delta"
          /\ det_result.confidence = ExpectedMultiConfidence(Cardinality(PositiveDelta))
          /\ (Cardinality(PositiveDelta) = 2 => det_result.confidence = 67)
          /\ (Cardinality(PositiveDelta) >= 5 => det_result.confidence = 45)
    /\ \A n \in 2..(MaxWide + 2) : MultiConfidence(n + 1) <= MultiConfidence(n)

\* At least five candidates: the floor is in force.
C8_Witness ==
    /\ det_done
    /\ Cardinality(PositiveDelta) >= 5
    /\ det_result.confidence = 45

\* C9: with several positive deltas the attributed code has the maximum
\* delta, and among the codes of maximum delta it is the first in the
\* iteration order of the current snapshot.
C9_MaxDeltaFirst ==
    (det_done /\ Cardinality(PositiveDelta) > 1) =>
        \E i \in PositiveDelta :
            /\ det_result.invite_code = det_current[i].code
            /\ det_result.inviter_id = det_current[i].inviter_id
            /\ \A j \in PositiveDelta : DeltaAt(j) <= DeltaAt(i)
            /\ \A j \in PositiveDelta : DeltaAt(j) = DeltaAt(i) => i <= j

\* Three candidates, the first with a smaller delta, the other two tied at
\* the maximum: the winner is the second code.
C9_Witness ==
    /\ det_done
    /\ PositiveDelta = {1, 2, 3}
    /\ DeltaAt(1) < DeltaAt(2)
    /\ DeltaAt(2) = DeltaAt(3)
    /\ det_result.invite_code = 2

\* ---- claims about activate_license --------------------------------------
Issued == {c \in Calls : act[c].pc # "idle"}

Succeeded == {c \in Calls : act[c].pc = "done" /\ act[c].result}

Failed == {c \in Calls : act[c].pc = "done" /\ ~act[c].result}

Min(a, b) == IF a <= b THEN a ELSE b

\* C1: concurrent activations never exceed the licence's capacity: the guilds
\* for which a call returned true and the activated list both stay within
\* max_guilds; and once concurrent calls from pairwise distinct guilds against
\* the valid, active, never-expiring licence have all returned, the number of
\* true results and the length of the activated list both equal the smaller
\* of the number of calls and max_guilds (three calls, max_guilds = 2: two
\* true, one false, list of length 2).
C1_CapacityUnderConcurrency ==
    \A l \in LicenseIds :
        /\ Len(premium_licenses[l].activated_guild_ids) <= premium_licenses[l].max_guilds
        /\ Cardinality({act[c].guild_id : c \in Succeeded}) <= premium_licenses[l].max_guilds
        /\ ( /\ Issued # {}
             /\ \A c \in Issued : act[c].pc = "done" /\ act[c].raw_key = "good"
             /\ \A c, d \in Issued : c # d => act[c].guild_id # act[d].guild_id
             /\ premium_licenses[l].is_active
             /\ premium_licenses[l].expires_at = None )
           => /\ Cardinality(Succeeded) =
                    Min(Cardinality(Issued), premium_licenses[l].max_guilds)
              /\ Cardinality(Failed) = Cardinality(Issued) - Cardinality(Succeeded)
              /\ Len(premium_licenses[l].activated_guild_ids) =
                    Min(Cardinality(Issued), premium_licenses[l].max_guilds)

\* Three calls from three guilds against the licence with max_guilds = 2 have
\* returned; the call issued first lost to the two issued after it, so it was
\* pending while both of them ran.
C1_Witness ==
    /\ \A c \in 1..3 : act[c].pc = "done" /\ act[c].raw_key = "good"
    /\ {act[c].guild_id : c \in 1..3} = Guilds
    /\ premium_licenses[1].max_guilds = 2
    /\ premium_licenses[1].expires_at = None
    /\ ~act[1].result /\ act[2].result /\ act[3].result
    /\ Len(premium_licenses[1].activated_guild_ids) = 2

\* C2: a call for a guild already in the activated list of an active,
\* unexpired licence passes the checks even at capacity, returns true, and
\* leaves the activated list exactly as it was, without a duplicate.
C2_IdempotentReactivation ==
    [][\A c \in Calls :
        /\ ( /\ act[c].pc = "begin" /\ act'[c].pc # "begin"
             /\ \E l \in LicenseIds :
                   /\ premium_licenses[l].key_hash = hash_key(act[c].raw_key)
                   /\ premium_licenses[l].is_active
                   /\ (premium_licenses[l].expires_at = None
                          \/ premium_licenses[l].expires_at >= now)
                   /\ InSeq(act[c].guild_id, premium_licenses[l].activated_guild_ids) )
           => (act'[c].pc = "intx" /\ act'[c].ok)
        /\ ( /\ act[c].pc = "intx" /\ act'[c].pc = "done" /\ act[c].ok
             /\ InSeq(act[c].guild_id, premium_licenses[act[c].lic].activated_guild_ids) )
           => /\ act'[c].result
              /\ premium_licenses'[act[c].lic].activated_guild_ids =
                    premium_licenses[act[c].lic].activated_guild_ids
              /\ \A i, j \in 1..Len(premium_licenses'[act[c].lic].activated_guild_ids) :
                    i # j => premium_licenses'[act[c].lic].activated_guild_ids[i] #
                             premium_licenses'[act[c].lic].activated_guild_ids[j]
      ]_vars

\* Two calls for the same guild have returned true on a licence with room for
\* one guild: the later one found the list at capacity; the list holds the
\* guild once.
C2_Witness ==
    /\ premium_licenses[1].max_guilds = 1
    /\ \E c, d \in Succeeded : c # d /\ act[c].guild_id = act[d].guild_id
    /\ Len(premium_licenses[1].activated_guild_ids) = 1

\* C3: a call returns false when no licence matches the key hash, when the
\* licence is inactive, when its expiry is in the past, or when the guild is
\* not yet activated and the list is full; such a call leaves the licence's
\* activated list, every guild's premium columns and the incident log as
\* they were.
C3_FalseWithoutEffect ==
    [][\A c \in Calls :
        /\ (act[c].pc = "begin" /\ act'[c].pc # "begin") =>
              /\ UNCHANGED <<premium_licenses, guilds, incidents>>
              /\ (\A l \in LicenseIds :
                     premium_licenses[l].key_hash # hash_key(act[c].raw_key))
                 => (act'[c].pc = "done" /\ ~act'[c].result)
              /\ \A l \in LicenseIds :
                    ( /\ premium_licenses[l].key_hash = hash_key(act[c].raw_key)
                      /\ \/ ~premium_licenses[l].is_active
                         \/ (premium_licenses[l].expires_at # None
                               /\ premium_licenses[l].expires_at < now)
                         \/ ( /\ ~InSeq(act[c].guild_id,
                                        premium_licenses[l].activated_guild_ids)
                              /\ Len(premium_licenses[l].activated_guild_ids) >=
                                    premium_licenses[l].max_guilds ) )
                    => (act'[c].pc = "intx" /\ ~act'[c].ok)
        /\ (act[c].pc = "intx" /\ act'[c].pc = "done" /\ ~act[c].ok) =>
              /\ ~act'[c].result
              /\ UNCHANGED <<premium_licenses, guilds, incidents>>
      ]_vars

\* One call with an unknown key and one call refused for capacity alone (the
\* licence is active and never expires) have returned false; the incident
\* log holds only the successful activation.
C3_Witness ==
    /\ premium_licenses[1].is_active
    /\ premium_licenses[1].expires_at = None
    /\ \E c \in Failed : act[c].raw_key = "bogus"
    /\ \E c \in Failed :
          /\ act[c].raw_key = "good"
          /\ ~InSeq(act[c].guild_id, premium_licenses[1].activated_guild_ids)
          /\ Len(premium_licenses[1].activated_guild_ids) = premium_licenses[1].max_guilds
          /\ ~guilds[act[c].guild_id].is_premium
    /\ Len(incidents) = Cardinality(Succeeded)
    /\ Succeeded # {}

\* ---- claims about the per-guild lock and the statistics ------------------
InSection(t) == jt[t].pc \in SectionPcs

\* C4: for every guild at most one on_member_join invocation is inside the
\* section that reads the previous snapshot, diffs, writes the new snapshot
\* and performs the durable writes, and it is the holder of that guild's
\* lock; a second join of the guild that has not entered yet cannot read the
\* snapshot before the first has left the section.
C4_OneJoinInSection ==
    \A t \in JoinTasks :
        InSection(t) =>
            /\ lock_holder[jt[t].guild] = t
            /\ \A u \in JoinTasks :
                  (u # t /\ jt[u].guild = jt[t].guild) => ~InSection(u)

\* A join of guild 1 has written the new snapshot and is before its last
\* durable writes while a second join of guild 1 waits for the lock.
C4_Witness ==
    \E t, u \in JoinTasks :
        /\ t # u
        /\ jt[t].guild = 1 /\ jt[u].guild = 1
        /\ jt[t].pc = "stats"
        /\ jt[u].pc = "waiting"
        /\ lock_waiters[1] = <<u>>

\* C5: the lock is per guild: a join never waits behind a join of another
\* guild, so a join of guild B runs to completion while a join of guild A is
\* suspended inside its section.
C5_LockPerGuild ==
    \A t \in JoinTasks :
        jt[t].pc = "waiting" =>
            \E u \in JoinTasks :
                /\ u # t
                /\ jt[u].guild = jt[t].guild
                /\ InSection(u)

\* Guild 1's lock was created before guild 2's and its only join is still
\* suspended at the platform call, while a join of guild 2 has taken its own
\* lock, written its join row and finished.
C5_Witness ==
    /\ locks = <<1, 2>>
    /\ jt[1].guild = 1 /\ jt[1].pc = "fetch"
    /\ jt[2].guild = 2 /\ jt[2].pc = "done"
    /\ lock_holder[1] = 1
    /\ lock_holder[2] = None
    /\ \E i \in 1..Len(invite_joins) : invite_joins[i].guild_id = 2

\* C10: every stats row has total_invites = real_invites + fake_invites, in
\* every reachable state of any interleaving of joins, leaves and bonus
\* adjustments, including rows first created by a leave or a bonus call.
C10_TotalIsRealPlusFake ==
    \A k \in DOMAIN user_invite_stats :
        user_invite_stats[k].exists =>
            user_invite_stats[k].total_invites =
                user_invite_stats[k].real_invites + user_invite_stats[k].fake_invites

\* One row was created by a bonus call and has counted no join; another has
\* counted a join and a leave.
C10_Witness ==
    /\ user_invite_stats[<<1, 12>>].exists
    /\ user_invite_stats[<<1, 12>>].total_invites = 0
    /\ user_invite_stats[<<1, 12>>].bonus_invites # 0
    /\ user_invite_stats[<<1, 11>>].exists
    /\ user_invite_stats[<<1, 11>>].total_invites = 1
    /\ user_invite_stats[<<1, 11>>].leaves = 1

\* ---- claims about the sliding-window counters ------------------------------
\* Task t's pipeline executes in this step.
PipelineRuns(t) == wt[t].pc = "pipeline" /\ wt'[t].pc # "pipeline"

\* The record calls on t's key made so far, t's own included.
RecordedWith(t) ==
    {u \in WindowTasks : wt[u].key = wt[t].key /\ (u = t \/ wt[u].count # None)}

EnabledThenDisabled ==
    /\ lk[1].pc = "done" /\ lk[1].guild = 1 /\ lk[1].enabled
    /\ lk[2].pc = "done" /\ lk[2].guild = 1 /\ ~lk[2].enabled /\ lk[2].alone
    /\ \A d \in LockdownTasks : d > 2 => lk[d].pc = "idle"

\* C12 as stated: set_lockdown(True) followed by set_lockdown(False) on an
\* unlocked guild leaves every text channel at the slowmode it had before,
\* whatever the lockdown slowmode and whichever edits the enable was refused
\* (read in the claim's favour: the disable is refused none).
C12_EnableDisableRestores ==
    (EnabledThenDisabled /\ lk[2].refused = {}) =>
        \A c \in ChannelIds(1) : channels[1][c] = InitialSlowmode(c)

\* C12 amended: the same, provided the backup the enable stored was still in
\* the cache (its 24 hours had not passed) when the disable read it; a
\* channel whose restoring edit the platform refused keeps the value the
\* enable left it with.
C12_EnableDisableRestoresFromBackup ==
    (EnabledThenDisabled /\ lk[2].found) =>
        \A c \in ChannelIds(1) :
            channels[1][c] = IF c \in lk[2].refused
                             THEN (IF c \in lk[1].refused THEN InitialSlowmode(c)
                                   ELSE lk[1].slowmode)
                             ELSE InitialSlowmode(c)

\* Lockdown slowmode 15; channel 41 (slowmode 5) was edited by the enable,
\* the edit of channel 42 (slowmode 0) was refused; the disable found the
\* backup with both channels and the channels are back at 5 and 0.
C12_Witness ==
    /\ EnabledThenDisabled /\ lk[2].found
    /\ lk[1].slowmode = 15
    /\ lk[1].refused = {42} /\ lk[2].refused = {}
    /\ lk[2].backup = (41 :> 5 @@ 42 :> 0)
    /\ channels[1][41] = 5 /\ channels[1][42] = 0
    /\ Len(incidents) = 2

\* ---- claims about the gateway handlers ------------------------------------
\* Task t of set_lockdown executes its UPDATE of the guilds table.
UpdateRuns(t) == lk[t].pc = "update" /\ lk'[t].pc # "update"

\* Join task t handles the join burst it detected (main.py lines 98-109).
BurstHandled(t) == jt[t].pc = "burst_incident" /\ jt'[t].pc # "burst_incident"

\* C13: the lockdown flag of a community is UNLOCKED (FALSE) or LOCKED
\* (TRUE); it is UNLOCKED at the start and in a settings row just created;
\* only the UPDATE of set_lockdown changes it, to the value of the command;
\* no step of a join, leave, message, invite-create or invite-delete handler
\* changes it, and the handling of a join burst appends one critical
\* incident join_burst_detected and leaves every flag as it was.
C13_FlagChangedOnlyBySetLockdown ==
    /\ \A g \in Guilds : guilds[g].lockdown_enabled = FALSE
    /\ [][/\ \A g \in Guilds :
              /\ guilds'[g].lockdown_enabled \in BOOLEAN
              /\ (~guilds[g].exists /\ guilds'[g].exists) =>
                     guilds'[g].lockdown_enabled = FALSE
              /\ guilds'[g].lockdown_enabled # guilds[g].lockdown_enabled =>
                     \E t \in LockdownTasks :
                         /\ UpdateRuns(t) /\ lk[t].guild = g
                         /\ guilds'[g].lockdown_enabled = lk[t].enabled
          /\ \A t \in JoinTasks :
              BurstHandled(t) =>
                 /\ Len(incidents') = Len(incidents) + 1
                 /\ incidents'[Len(incidents')].incident_type = "join_burst_detected"
                 /\ incidents'[Len(incidents')].severity = "critical"
                 /\ incidents'[Len(incidents')].guild_id = jt[t].guild
                 /\ \A g \in Guilds :
                        guilds'[g].lockdown_enabled = guilds[g].lockdown_enabled
       ]_vars

\* A join of guild 1 breached the burst threshold while the guild was
\* unlocked and no lockdown command had been issued: the critical incident
\* is written, the join is handled and the guild is still unlocked.
C13_Witness ==
    /\ \E t \in JoinTasks : jt[t].pc = "handled" /\ jt[t].guild = 1 /\ jt[t].burst
    /\ \E i \in 1..Len(incidents) :
          incidents[i].incident_type = "join_burst_detected" /\ incidents[i].guild_id = 1
    /\ \A t \in LockdownTasks : lk[t].pc = "idle"
    /\ ~guilds[1].lockdown_enabled

\* ---- claims about the join and leave records ------------------------------
\* Join task t looks for a prior leave (lines 243-253), inserts its join row
\* (lines 255-279).
LookupRuns(t) == jt[t].pc = "prior_leave" /\ jt'[t].pc # "prior_leave"

InsertRuns(t) == jt[t].pc = "insert_join" /\ jt'[t].pc # "insert_join"

\* C14: the join row of a member carries is_rejoin = true exactly when a
\* leave row of the same guild and member was recorded before the join
\* looked for one (the lookup and the insert are steps of one join, inside
\* the guild's lock); leave rows of the member in other guilds do not count.
C14_RejoinIffPriorLeave ==
    [][\A t \in JoinTasks :
        /\ LookupRuns(t) =>
              (jt'[t].is_rejoin <=>
                  \E i \in 1..Len(invite_leaves) :
                      /\ invite_leaves[i].guild_id = jt[t].guild
                      /\ invite_leaves[i].member_id = jt[t].member)
        /\ (jt[t].pc = "insert_join" /\ ~InsertRuns(t)) =>
              jt'[t].is_rejoin = jt[t].is_rejoin
        /\ InsertRuns(t) =>
              /\ Len(invite_joins') = Len(invite_joins) + 1
              /\ invite_joins'[Len(invite_joins')].guild_id = jt[t].guild
              /\ invite_joins'[Len(invite_joins')].member_id = jt[t].member
              /\ invite_joins'[Len(invite_joins')].is_rejoin = jt[t].is_rejoin
      ]_vars

\* Member 31 joined guild 1 (first join: is_rejoin false), left it, and
\* joined again (is_rejoin true).
C14_Witness ==
    /\ Len(invite_joins) = 2 /\ Len(invite_leaves) = 1
    /\ \A i \in 1..2 : invite_joins[i].guild_id = 1 /\ invite_joins[i].member_id = 31
    /\ invite_leaves[1].guild_id = 1 /\ invite_leaves[1].member_id = 31
    /\ ~invite_joins[1].is_rejoin /\ invite_joins[2].is_rejoin

\* ---- claims about the premium features ------------------------------------
\* The incidents of guild g of severity s written within the last hour.
RecentOf(g, s) ==
    {i \in 1..Len(incidents) :
        /\ incidents[i].guild_id = g /\ incidents[i].severity = s
        /\ now - incidents[i].created_at < Hour}

\* low = 1, medium = 2, high = 4, critical = 7, over the last hour of guild g
ExpectedScore(g) ==
    Cardinality(RecentOf(g, "low")) + 2 * Cardinality(RecentOf(g, "medium"))
    + 4 * Cardinality(RecentOf(g, "high")) + 7 * Cardinality(RecentOf(g, "critical"))

\* C15: advanced_raid_prediction for a premium guild returns as score the
\* sum of the weights low=1, medium=2, high=4, critical=7 over that guild's
\* incidents of the trailing hour, and as risk low below 10, medium from 10
\* to 19, high from 20.
C15_ScoreAndRisk ==
    \A t \in PredictionTasks :
        rp[t].pc = "done" =>
            /\ rp[t].result.score = ExpectedScore(rp[t].guild)
            /\ rp[t].result.score < 10 => rp[t].result.risk = "low"
            /\ (10 <= rp[t].result.score /\ rp[t].result.score <= 19) =>
                  rp[t].result.risk = "medium"
            /\ rp[t].result.score >= 20 => rp[t].result.risk = "high"

\* Premium guild 1 with one critical and two high incidents in the last
\* hour (besides an older one, and one of guild 2): score 15, risk medium.
\* A second call for it returned the same.
C15_Witness ==
    /\ guilds[1].is_premium
    /\ Cardinality(RecentOf(1, "critical")) = 1 /\ Cardinality(RecentOf(1, "high")) = 2
    /\ RecentOf(1, "low") = {} /\ RecentOf(1, "medium") = {}
    /\ \A t \in 1..2 :
          /\ rp[t].pc = "done" /\ rp[t].guild = 1
          /\ rp[t].result = [risk |-> "medium", score |-> 15, incidents_last_hour |-> 3]

\* C16: advanced_raid_prediction for a guild without a settings row or with
\* is_premium false raises PremiumRequiredError at the gate, before it reads
\* any incident, and changes nothing; for a premium guild it does not raise.
C16_GateRaisesFirst ==
    [][\A t \in PredictionTasks :
        /\ (rp[t].pc = "gate" /\ rp'[t].pc # "gate") =>
              /\ rp'[t].pc = (IF guilds[rp[t].guild].exists /\ guilds[rp[t].guild].is_premium
                              THEN "fetch" ELSE "raised")
              /\ ~rp'[t].fetched /\ rp'[t].result = NoPrediction
              /\ UNCHANGED <<detVars, licVars, trkVars, secVars, it, quarantined, kicked>>
        /\ rp[t].pc = "raised" => rp'[t] = rp[t]
      ]_vars

\* Calls for guild 3 (no settings row) and for guild 1 (not premium) have
\* both raised, with incidents of guild 1 on record.
C16_Witness ==
    /\ ~guilds[1].is_premium /\ ~guilds[3].exists
    /\ ExpectedScore(1) >= 10
    /\ rp[1].pc = "raised" /\ rp[1].guild = 3 /\ ~rp[1].fetched
    /\ rp[2].pc = "raised" /\ rp[2].guild = 1 /\ ~rp[2].fetched

\* The calls of check_cross_server_blacklist that have returned.
BlacklistReturned == {t \in JoinTasks : jt[t].pc = "handled"}

\* C17: check_cross_server_blacklist never lets PremiumRequiredError
\* escape; a call for a guild that is not premium returns false and writes
\* no incident; a call for a premium guild returns true, with exactly one
\* critical incident cross_server_blacklist_hit for the member, if and only
\* if a fraud flag of reason cross_server_blacklist exists for the member in
\* some guild.
C17_BlacklistGateAndHit ==
    /\ \A t \in JoinTasks : jt[t].pc # "raised"
    /\ \A t \in BlacklistReturned :
          jt[t].blacklist_result <=>
             /\ guilds[jt[t].guild].exists /\ guilds[jt[t].guild].is_premium
             /\ \E i \in 1..Len(fraud_flags), g \in Guilds :
                   /\ fraud_flags[i].guild_id = g
                   /\ fraud_flags[i].member_id = jt[t].member
                   /\ fraud_flags[i].reason = "cross_server_blacklist"
    /\ \A g \in Guilds, m \in Members :
          Cardinality({i \in 1..Len(incidents) :
                          /\ incidents[i].guild_id = g /\ incidents[i].actor_id = m
                          /\ incidents[i].incident_type = "cross_server_blacklist_hit"
                          /\ incidents[i].severity = "critical"})
          = Cardinality({t \in JoinTasks :
                          /\ jt[t].guild = g /\ jt[t].member = m
                          /\ jt[t].blacklist_result})
    /\ Len(incidents) = Cardinality({t \in JoinTasks : jt[t].blacklist_result})

\* Member 31 is listed through a flag of guild 2: the call for it in premium
\* guild 1 returned true with one critical incident, the call in guild 2
\* (not premium) returned false.
C17_Witness ==
    /\ guilds[1].is_premium /\ ~guilds[2].is_premium
    /\ jt[1].pc = "handled" /\ jt[1].guild = 1 /\ jt[1].member = 31
    /\ jt[1].blacklist_result
    /\ jt[2].pc = "handled" /\ jt[2].guild = 2 /\ jt[2].member = 31
    /\ ~jt[2].blacklist_result
    /\ Len(incidents) = 1 /\ incidents[1].guild_id = 1 /\ incidents[1].severity = "critical"

\* ---- claims about the fraud flags -----------------------------------------
\* The joins of member m in guild g whose handler has returned.
JoinsDone(g, m) == {t \in JoinTasks : jt[t].pc = "done" /\ jt[t].guild = g /\ jt[t].member = m}

\* The fraud flags of member m in guild g, as positions of the table.
FlagsOf(g, m) ==
    {i \in 1..Len(fraud_flags) : fraud_flags[i].guild_id = g /\ fraud_flags[i].member_id = m}

\* s (in ten-thousandths) is clamp(0, 1, num / den) rounded to four decimals.
IsRoundedClamp(s, num, den) ==
    IF num <= 0 THEN s = 0
    ELSE IF num >= den THEN s = 10000
    ELSE /\ 2 * (s * den - 10000 * num) <= den
         /\ 2 * (10000 * num - s * den) <= den

\* C18: a join writes a fraud flag, of reason young_account, exactly when
\* the account age in hours is below the guild's minimum; the score of the
\* flag is clamp(0, 1, (min_age - age) / max(1, min_age)) rounded to four
\* decimals, hence within [0, 1]; 10 h against 72 h gives 0.8611.
C18_FlagIffFakeAndScore ==
    /\ \A g \in {1}, m \in FraudMembers :
          /\ (\A t \in JoinTasks : jt[t].guild = g /\ jt[t].member = m => jt[t].pc = "done")
                => Cardinality(FlagsOf(g, m)) =
                      (IF AgeHours(m) < guilds[g].min_account_age_hours
                       THEN Cardinality(JoinsDone(g, m)) ELSE 0)
          /\ AgeHours(m) >= guilds[g].min_account_age_hours => FlagsOf(g, m) = {}
    /\ \A i \in 1..Len(fraud_flags) :
          LET min_age == guilds[fraud_flags[i].guild_id].min_account_age_hours
              age == AgeHours(fraud_flags[i].member_id)
          IN /\ fraud_flags[i].reason = "young_account"
             /\ fraud_flags[i].score \in 0..10000
             /\ IsRoundedClamp(fraud_flags[i].score, min_age - age, Max(1, min_age))
             /\ (min_age = 72 /\ age = 10) => fraud_flags[i].score = 8611

\* With the minimum at 72 hours member 31 (10 hours) and member 32 (100
\* hours) have joined: one flag, for member 31, of score 0.8611.
C18_Witness ==
    /\ guilds[1].min_account_age_hours = 72
    /\ JoinsDone(1, 31) # {} /\ JoinsDone(1, 32) # {}
    /\ Len(fraud_flags) = 1
    /\ fraud_flags[1] = [guild_id |-> 1, member_id |-> 31, reason |-> "young_account",
                         score |-> 8611]

\* ---- claims about the counters of joins and leaves ------------------------
\* A counter of a stats row; a row that does not exist counts as zero.
Counter(tbl, k, field) == IF tbl[k].exists THEN tbl[k][field] ELSE 0

\* Join task t, leave task t takes a step (a join that waits for the guild's
\* lock is moved by the task that releases it).
JoinSteps(t) == jt[t].pc # "waiting" /\ jt'[t] # jt[t]

LeaveSteps(t) == lt'[t] # lt[t]

\* C19: a join appends exactly one join row, at its insert and at no other
\* step; when the attribution names an inviter, the join's stats step adds 1
\* to the inviter's total_invites, 1 to fake_invites (account age below the
\* minimum) or else to real_invites, 1 to rejoins exactly for a rejoin, and
\* touches no other row or counter; a join without attributed inviter takes
\* no stats step and no step of it creates or changes a stats row.
C19_JoinRowAndCounters ==
    [][\A t \in JoinTasks :
        JoinSteps(t) =>
            /\ IF InsertRuns(t)
               THEN /\ Len(invite_joins') = Len(invite_joins) + 1
                    /\ SubSeq(invite_joins', 1, Len(invite_joins)) = invite_joins
                    /\ invite_joins'[Len(invite_joins')].inviter_id =
                          jt[t].attribution.inviter_id
                    /\ (jt'[t].pc = "stats") <=> (jt[t].attribution.inviter_id # None)
               ELSE invite_joins' = invite_joins
            /\ jt[t].pc \in {"stats", "invites", "fraud"} => jt'[t].pc # "insert_join"
            /\ IF jt[t].pc = "stats"
               THEN LET k == <<jt[t].guild, jt[t].attribution.inviter_id>>
                        fake == AgeHours(jt[t].member) <
                                   guilds[jt[t].guild].min_account_age_hours
                    IN /\ jt[t].attribution.inviter_id # None
                       /\ user_invite_stats'[k].exists
                       /\ user_invite_stats'[k].total_invites =
                             Counter(user_invite_stats, k, "total_invites") + 1
                       /\ user_invite_stats'[k].fake_invites =
                             Counter(user_invite_stats, k, "fake_invites")
                             + (IF fake THEN 1 ELSE 0)
                       /\ user_invite_stats'[k].real_invites =
                             Counter(user_invite_stats, k, "real_invites")
                             + (IF fake THEN 0 ELSE 1)
                       /\ user_invite_stats'[k].rejoins =
                             Counter(user_invite_stats, k, "rejoins")
                             + (IF jt[t].is_rejoin THEN 1 ELSE 0)
                       /\ user_invite_stats'[k].leaves =
                             Counter(user_invite_stats, k, "leaves")
                       /\ user_invite_stats'[k].bonus_invites =
                             Counter(user_invite_stats, k, "bonus_invites")
                       /\ \A o \in DOMAIN user_invite_stats :
                             o # k => user_invite_stats'[o] = user_invite_stats[o]
               ELSE user_invite_stats' = user_invite_stats
      ]_vars

\* Member 31 (a young account) joined guild 1 through invite 1 of user 11,
\* left, and joined through it again: two join rows, and user 11 has total
\* 2, fake 2, real 0, rejoins 1; a join of nobody's invite changed no row.
C19_Witness ==
    /\ Len(invite_joins) = 2
    /\ \A t \in 1..2 : jt[t].pc = "done" /\ jt[t].member = 31
                        /\ jt[t].attribution.inviter_id = 11
    /\ user_invite_stats[<<1, 11>>].total_invites = 2
    /\ user_invite_stats[<<1, 11>>].fake_invites = 2
    /\ user_invite_stats[<<1, 11>>].real_invites = 0
    /\ user_invite_stats[<<1, 11>>].rejoins = 1
    /\ ~user_invite_stats[<<1, 12>>].exists

RECURSIVE AuditSum(_, _, _)
AuditSum(g, u, n) ==
    IF n = 0 THEN 0
    ELSE AuditSum(g, u, n - 1)
         + (IF bonus_invites[n].guild_id = g /\ bonus_invites[n].user_id = u
            THEN bonus_invites[n].amount ELSE 0)

\* No adjustment is between its audit row and its counter update.
AdjustmentsCompleted == \A t \in BonusTasks : bt[t].pc \in {"idle", "done"}

\* C21: an adjustment of amount 0 ends at once and writes nothing; any other
\* adjustment appends exactly one audit row with its amount and then adds
\* exactly that amount to the user's bonus_invites, touching no other counter
\* or row; whenever no adjustment is in progress, every user's bonus_invites
\* is the sum of the amounts of that user's audit rows in that guild.
C21_BonusPairedWithAudit ==
    /\ [](AdjustmentsCompleted =>
            \A k \in DOMAIN user_invite_stats :
                Counter(user_invite_stats, k, "bonus_invites")
                  = AuditSum(k[1], k[2], Len(bonus_invites)))
    /\ [][\A t \in BonusTasks :
            bt'[t] # bt[t] =>
              /\ bt[t].pc = "idle" =>
                    /\ bonus_invites' = bonus_invites
                    /\ user_invite_stats' = user_invite_stats
                    /\ (bt'[t].pc = "done") <=> (bt'[t].amount = 0)
              /\ bt[t].pc = "insert" =>
                    /\ bt[t].amount # 0
                    /\ bonus_invites' =
                          Append(bonus_invites,
                                 [guild_id |-> bt[t].guild, user_id |-> bt[t].user,
                                  amount |-> bt[t].amount])
                    /\ user_invite_stats' = user_invite_stats
              /\ bt[t].pc = "stats" =>
                    LET k == <<bt[t].guild, bt[t].user>>
                    IN /\ bonus_invites' = bonus_invites
                       /\ user_invite_stats'[k].exists
                       /\ user_invite_stats'[k].bonus_invites =
                             Counter(user_invite_stats, k, "bonus_invites") + bt[t].amount
                       /\ \A f \in {"total_invites", "fake_invites", "real_invites",
                                     "rejoins", "leaves"} :
                             user_invite_stats'[k][f] = Counter(user_invite_stats, k, f)
                       /\ \A o \in DOMAIN user_invite_stats :
                             o # k => user_invite_stats'[o] = user_invite_stats[o]
                       /\ bt'[t].pc = "done"
       ]_vars

\* Two completed adjustments of user 11 in guild 1, a credit and a debit of
\* one, on a row that a join had created: two audit rows, bonus_invites 0.
C21_Witness ==
    /\ AdjustmentsCompleted
    /\ Len(bonus_invites) = 2
    /\ \A i \in 1..2 : bonus_invites[i].guild_id = 1 /\ bonus_invites[i].user_id = 11
    /\ bonus_invites[1].amount = 1 /\ bonus_invites[2].amount = -1
    /\ user_invite_stats[<<1, 11>>].total_invites = 1
    /\ user_invite_stats[<<1, 11>>].bonus_invites = 0

\* ---- claims about the checks of a join -----------------------------------
\* The guild has a role of the name its settings give (the configured default
\* when the column is empty).
QuarantineRoleExists(g) ==
    (IF guilds[g].quarantine_role_name = "" THEN "Quarantine"
     ELSE guilds[g].quarantine_role_name) \in GuildRoles(g)

\* C22: a join whose quarantine step finds the guild's lockdown flag set and
\* a role of the configured name goes on to assign that role, and the member
\* then holds it unless the platform forbids the assignment; with the flag
\* clear or the role missing nothing is assigned; in every case the handler
\* goes on to the burst check; and only a member whose guild is locked down
\* and has the role is ever quarantined.
C22_QuarantineIffLocked ==
    /\ [](\A q \in quarantined :
            guilds[q[1]].lockdown_enabled /\ QuarantineRoleExists(q[1]))
    /\ [][\A t \in JoinTasks :
            JoinSteps(t) =>
              LET g == jt[t].guild
                  m == jt[t].member
              IN /\ jt[t].pc = "is_lockdown" =>
                       /\ quarantined' = quarantined
                       /\ IF guilds[g].exists /\ guilds[g].lockdown_enabled
                             /\ QuarantineRoleExists(g)
                          THEN jt'[t].pc = "add_roles"
                          ELSE jt'[t].pc = "burst_settings"
                 /\ jt[t].pc = "add_roles" =>
                       /\ quarantined' \in {quarantined \cup {<<g, m>>}, quarantined}
                       /\ jt'[t].pc = "burst_settings"
                 /\ jt[t].pc \notin {"is_lockdown", "add_roles"} =>
                       quarantined' = quarantined
       ]_vars

\* A join of the locked guild 1, whose settings name no role so that the
\* default name applies, has run to its end with the member quarantined.
C22_Witness ==
    /\ jt[1].pc = "handled" /\ jt[1].guild = 1
    /\ guilds[1].lockdown_enabled /\ guilds[1].quarantine_role_name = ""
    /\ Len(invite_joins) = 1
    /\ <<1, jt[1].member>> \in quarantined

\* ---- claims about entering and leaving the lockdown ----------------------
\* Command t has returned and no later command has been issued.
LastReturned(t) ==
    /\ lk[t].pc = "done"
    /\ \A d \in LockdownTasks : d > t => lk[d].pc = "idle"

\* The critical incidents lockdown_enabled of guild g.
EnabledIncidents(g) ==
    {i \in 1..Len(incidents) :
        /\ incidents[i].guild_id = g
        /\ incidents[i].incident_type = "lockdown_enabled"
        /\ incidents[i].severity = "critical"}

\* C23: when a command that enables the lockdown of a guild with a settings
\* row has returned, every text channel it visited (all that existed when it
\* listed them) whose edit was not refused has the lockdown slowmode,
\* whatever was refused before it; the backup it stored has an entry for
\* every text channel visited, refused ones included; when the
\* invites could be listed, exactly the invites whose deletion was refused
\* remain; and its critical incident has been written.
C23_RefusalsSkipOnlyThemselves ==
    /\ [](\A t \in LockdownTasks :
            (LastReturned(t) /\ lk[t].enabled /\ guilds[lk[t].guild].exists) =>
               LET g == lk[t].guild
               IN /\ \A c \in lk[t].edited \ lk[t].refused :
                        channels[g][c] = lk[t].slowmode
                  /\ ChannelIds(g) \subseteq lk[t].edited
                  /\ lk[t].refused \subseteq lk[t].edited
                  /\ DOMAIN lk[t].previous_slowmodes = lk[t].edited
                  /\ lk[t].listed => DOMAIN platform[g] = lk[t].kept
                  /\ Cardinality(EnabledIncidents(g)) =
                        Cardinality({d \in LockdownTasks :
                                        lk[d].pc = "done" /\ lk[d].enabled}))
    /\ [][\A t \in LockdownTasks :
            lk[t].pc = "set_backup" /\ lk'[t].pc # "set_backup" =>
               /\ slowmode_backup'[lk[t].guild].exists
               /\ DOMAIN slowmode_backup'[lk[t].guild].map = lk[t].edited
               /\ ChannelIds(lk[t].guild) \subseteq lk[t].edited
               /\ lk'[t].pc = "list_invites"
       ]_vars

\* The edit of the first channel and the deletion of the first invite were
\* refused; the second channel was edited, the second invite deleted, the
\* backup has both channels and the incident is written.
C23_Witness ==
    /\ LastReturned(1) /\ lk[1].enabled
    /\ lk[1].refused = {41}
    /\ channels[1][42] = lk[1].slowmode /\ lk[1].slowmode # 0
    /\ lk[1].listed /\ lk[1].kept = {1}
    /\ DOMAIN platform[1] = {1}
    /\ DOMAIN slowmode_backup[1].map = {41, 42}
    /\ Cardinality(EnabledIncidents(1)) = 1

\* The incidents of the given type and severity about member m of guild g.
IncidentsAbout(g, m, type, severity) ==
    {i \in 1..Len(incidents) :
        /\ incidents[i].guild_id = g /\ incidents[i].actor_id = m
        /\ incidents[i].incident_type = type
        /\ incidents[i].severity = severity}

\* enforce_account_age has returned in frame t.
AgeReturned(t) == jt[t].pc \in {"blacklist_gate", "blacklist_lookup",
                                "blacklist_incident", "handled"}

\* C24: when enforce_account_age has returned, there is exactly one medium
\* incident young_account_detected if the guild has a settings row and the
\* account age is below its minimum, and none otherwise; it returned true
\* exactly when the member was kicked, which is exactly when the high
\* incident young_account_kicked was written (once), and only for a young
\* account of a guild with auto-kick; the kick is attempted for every such
\* account, and a refused kick leads on without incident.
C24_AgeEnforcement ==
    /\ [](\A t \in JoinTasks :
            AgeReturned(t) =>
               LET g == jt[t].guild
                   m == jt[t].member
                   young == guilds[g].exists
                            /\ AgeHours(m) < guilds[g].min_account_age_hours
                   medium == IncidentsAbout(g, m, "young_account_detected", "medium")
                   high == IncidentsAbout(g, m, "young_account_kicked", "high")
               IN /\ Cardinality(medium) = (IF young THEN 1 ELSE 0)
                  /\ Cardinality(high) = (IF jt[t].age_result THEN 1 ELSE 0)
                  /\ jt[t].age_result <=> (<<g, m>> \in kicked)
                  /\ jt[t].age_result =>
                        young /\ guilds[g].auto_kick_young_accounts)
    /\ [][\A t \in JoinTasks :
            JoinSteps(t) =>
               /\ jt[t].pc = "age_incident" =>
                     ((jt'[t].pc = "kick") <=>
                         guilds[jt[t].guild].auto_kick_young_accounts)
               /\ jt[t].pc = "kick" =>
                     \/ /\ kicked' = kicked \cup {<<jt[t].guild, jt[t].member>>}
                        /\ jt'[t].pc = "kick_incident"
                     \/ /\ kicked' = kicked
                        /\ incidents' = incidents
                        /\ jt'[t].pc = "blacklist_gate"
                        /\ ~jt'[t].age_result
               /\ jt[t].pc # "kick" => kicked' = kicked
       ]_vars

\* A young account joined guild 1, which kicks young accounts; the kick was
\* refused: one medium incident, no high one, the member still there.
C24_Witness ==
    /\ jt[1].pc = "handled" /\ jt[1].guild = 1 /\ jt[1].member = 31
    /\ Len(invite_joins) = 1
    /\ guilds[1].auto_kick_young_accounts
    /\ ~jt[1].age_result
    /\ kicked = {}
    /\ Cardinality(IncidentsAbout(1, 31, "young_account_detected", "medium")) = 1

\* ---- claims about handle_link_spam ----------------------------------------
\* The handled messages with a link that author a posted in guild g, stamped
\* within the window that ends at task t's timestamp.
OwnLinks(t) ==
    {u \in WindowTasks :
        /\ wt[u].count # None
        /\ wt[u].guild = wt[t].guild /\ wt[u].author = wt[t].author
        /\ ~wt[u].is_bot /\ wt[u].has_link
        /\ wt[u].now > wt[t].now - wt[t].window
        /\ wt[u].now <= wt[t].now}

\* The high incidents link_spam_timeout.
TimeoutIncidents ==
    {i \in 1..Len(incidents) :
        incidents[i].incident_type = "link_spam_timeout" /\ incidents[i].severity = "high"}

UsedCodes == {i \in 1..Len(det_current) : det_current[i].uses > 0}

\* C26: with no stored snapshot (the previous snapshot is the dict without
\* keys) _detect_used_invite returns, and its result is the one the rules
\* give for the candidate set of all codes with uses > 0, each with its full
\* use count as delta: none gives "no_invite_delta" with confidence 0.2, one
\* gives that code with "single_delta" and 0.96, several give "multi_delta",
\* the first code of the largest use count and the confidence of their number.
C26_NoSnapshotAllUsesAreDeltas ==
    (det_done /\ DOMAIN det_previous = {}) =>
        /\ UsedCodes = {} =>
              det_result = [invite_code |-> None, inviter_id |-> None,
                            confidence |-> 20, reason |-> "no_invite_delta"]
        /\ Cardinality(UsedCodes) = 1 =>
              \A i \in UsedCodes :
                  det_result = [invite_code |-> det_current[i].code,
                                inviter_id |-> det_current[i].inviter_id,
                                confidence |-> 96, reason |-> "single_delta"]
        /\ Cardinality(UsedCodes) >= 2 =>
              /\ det_result.reason = "multi_delta"
              /\ det_result.confidence = ExpectedMultiConfidence(Cardinality(UsedCodes))
              /\ \E i \in UsedCodes :
                    /\ det_result.invite_code = det_current[i].code
                    /\ det_result.inviter_id = det_current[i].inviter_id
                    /\ \A j \in UsedCodes :
                          /\ det_current[j].uses <= det_current[i].uses
                          /\ det_current[j].uses = det_current[i].uses => j >= i

\* No stored snapshot, three live codes of which the second and the third
\* were used, the third more often: it wins with "multi_delta".
C26_Witness ==
    /\ det_done
    /\ DOMAIN det_previous = {}
    /\ Len(det_current) = 3
    /\ det_current[1].uses = 0 /\ det_current[2].uses = 1 /\ det_current[3].uses = 2
    /\ det_result.invite_code = 3
    /\ det_result.reason = "multi_delta"

\* The uses of code c in a fetched list and in the stored snapshot of guild g
\* (0 for a code that is not there).
UsesIn(current, c) ==
    IF \E i \in 1..Len(current) : current[i].code = c
    THEN (CHOOSE e \in {current[i] : i \in 1..Len(current)} : e.code = c).uses
    ELSE 0

SnapUses(g, c) == IF c \in DOMAIN snapshot[g] THEN snapshot[g][c].uses ELSE 0

\* The stored snapshot of guild g is the list `current`.
SnapshotIs(g, current) ==
    /\ DOMAIN snapshot[g] = {current[i].code : i \in 1..Len(current)}
    /\ \A i \in 1..Len(current) :
          /\ snapshot[g][current[i].code].uses = current[i].uses
          /\ snapshot[g][current[i].code].inviter_id = current[i].inviter_id

\* The joins of guild g that have replaced the snapshot.
WroteSnapshot(g) ==
    {t \in JoinTasks :
        /\ jt[t].guild = g
        /\ jt[t].pc \notin {"idle", "start", "waiting", "ensure", "upsert_user",
                             "fetch", "detect", "set_snapshot"}}

\* C27: with joins as the only invite events, the stored snapshot of a guild
\* changes only in a step of a join that holds, and keeps, the guild's lock,
\* and becomes the list that join fetched; so once a join has written, the
\* snapshot is the list of the join that fetched last. A join that has
\* diffed holds the lock, a code attributed by it has more uses in its list
\* than in the snapshot the previous join left, and when its list shows one
\* more use of one code and nothing else it attributes that code with
\* "single_delta".
C27_SnapshotReplacedUnderLock ==
    /\ [](\A g \in Guilds :
            WroteSnapshot(g) # {} =>
                \E t \in WroteSnapshot(g) :
                    /\ SnapshotIs(g, jt[t].current)
                    /\ \A u \in WroteSnapshot(g), c \in AllCodes :
                          UsesIn(jt[u].current, c) <= UsesIn(jt[t].current, c))
    /\ [](\A t \in JoinTasks :
            jt[t].pc = "set_snapshot" =>
                /\ lock_holder[lock_manager_get(jt[t].guild)] = t
                /\ jt[t].attribution.invite_code # None =>
                      UsesIn(jt[t].current, jt[t].attribution.invite_code)
                          > SnapUses(jt[t].guild, jt[t].attribution.invite_code)
                /\ \A c \in AllCodes :
                      (\A d \in AllCodes :
                          UsesIn(jt[t].current, d)
                              = SnapUses(jt[t].guild, d) + (IF d = c THEN 1 ELSE 0))
                      => jt[t].attribution =
                            [invite_code |-> c, inviter_id |-> InviterOf(c),
                             confidence |-> 96, reason |-> "single_delta"])
    /\ [][\A g \in Guilds :
            snapshot'[g] # snapshot[g] =>
                \E t \in JoinTasks :
                    /\ jt[t].pc = "set_snapshot" /\ jt[t].guild = g
                    /\ lock_holder[lock_manager_get(g)] = t
                    /\ lock_holder'[lock_manager_get(g)] = t
                    /\ SnapshotIs(g, jt[t].current)']_vars

\* Two joins of guild 1 through invite 1 have written the snapshot: the first
\* fetched one use, the second two, both attributed invite 1 with
\* "single_delta", and the snapshot holds two uses.
C27_Witness ==
    /\ WroteSnapshot(1) = {1, 2}
    /\ UsesIn(jt[1].current, 1) = 1 /\ UsesIn(jt[2].current, 1) = 2
    /\ \A t \in {1, 2} : /\ jt[t].attribution.invite_code = 1
                          /\ jt[t].attribution.reason = "single_delta"
    /\ snapshot[1][1].uses = 2

\* ---- claims about the guilds table -----------------------------------------
\* The record a step appends to a table, if it appends one, is about a guild
\* whose settings row exists before the step.
WrittenWithRow(old, new) ==
    Len(new) > Len(old) => guilds[new[Len(new)].guild_id].exists

\* C28: every join event, leave event, incident and fraud flag is written
\* for a guild whose settings row existed before the write.
C28_RowExistsBeforeWrite ==
    [][/\ WrittenWithRow(invite_joins, invite_joins')
       /\ WrittenWithRow(invite_leaves, invite_leaves')
       /\ WrittenWithRow(incidents, incidents')
       /\ WrittenWithRow(fraud_flags, fraud_flags')]_vars

\* ---- claims about leaving the lockdown -------------------------------------
\* Command t, which disables the lockdown, has visited every channel.
DisableVisitedAll(t) == lk[t].pc = "incident" /\ ~lk[t].enabled

\* Task t of set_lockdown(guild, False) takes a step.
DisableSteps(t) == lk[t].pc # "idle" /\ ~lk[t].enabled /\ lk'[t] # lk[t]

\* The disable visits the channel at the head of its list, which already has
\* its desired slowmode: the channel is not edited.
SkippedUntouched(t) ==
    (lk[t].pc = "restore" /\ lk'[t] # lk[t]) =>
        LET g == lk[t].guild
            c == Head(lk[t].todo)
            desired == IF c \in DOMAIN lk[t].backup THEN lk[t].backup[c] ELSE 0
        IN channels[g][c] = desired =>
              /\ channels' = channels
              /\ c \notin lk'[t].edited
              /\ lk'[t].refused = lk[t].refused

\* C29 as stated: when a disabling command has visited the channels, every
\* text channel it visited without entry in the backup it read has slowmode 0; a channel
\* already at its desired value is not edited; no step of the command
\* changes the invites of the platform.
C29_NoEntryEndsAtZero ==
    /\ [](\A t \in LockdownTasks :
            DisableVisitedAll(t) =>
                \A c \in lk[t].visited \ DOMAIN lk[t].backup :
                    channels[lk[t].guild][c] = 0)
    /\ [][\A t \in LockdownTasks :
            /\ SkippedUntouched(t)
            /\ DisableSteps(t) => platform' = platform]_vars

\* C29 amended: the same, except that a channel without entry whose edit the
\* platform refused keeps the slowmode it had, which is not 0; the edit was
\* called exactly for the channels found away from their desired value.
C29_NoEntryEndsAtZeroUnlessRefused ==
    /\ [](\A t \in LockdownTasks :
            DisableVisitedAll(t) =>
                /\ \A c \in lk[t].visited \ DOMAIN lk[t].backup :
                      /\ c \notin lk[t].refused => channels[lk[t].guild][c] = 0
                      /\ c \in lk[t].refused => channels[lk[t].guild][c] # 0
                /\ lk[t].refused \subseteq lk[t].edited)
    /\ [][\A t \in LockdownTasks :
            /\ SkippedUntouched(t)
            /\ DisableSteps(t) => platform' = platform]_vars

\* The lockdown (slowmode 15) was enabled, channel 44 was created with
\* slowmode 5 after the backup was stored, and the disable has visited the
\* channels: 44, without entry, was edited to 0; 42, restored to its 0, and
\* 41, restored to its 5, were edited; no invite is back.
C29_Witness ==
    /\ DisableVisitedAll(2) /\ lk[2].found
    /\ lk[1].enabled /\ lk[1].slowmode = 15 /\ lk[1].refused = {}
    /\ DOMAIN lk[2].backup = {41, 42}
    /\ lk[2].visited = {41, 42, 44}
    /\ lk[2].edited = {41, 42, 44} /\ lk[2].refused = {}
    /\ channels[1][44] = 0 /\ channels[1][41] = 5 /\ channels[1][42] = 0
    /\ lk[1].listed /\ lk[1].kept = {} /\ DOMAIN platform[1] = {}

\* ---- claims about the expiry of the window keys ----------------------------
\* The window of the guild whose settings a key's calls read.
WindowOf(k) ==
    IF k[1] = "joins" THEN guilds[k[2]].join_burst_window_seconds
    ELSE guilds[k[2]].link_spam_window_seconds

\* A pipeline that leaves its key in the cache gives it max(window, 60)
\* seconds from its execution, which is not less than the window.
ExpirySet ==
    \A t \in WindowTasks :
        (PipelineRuns(t) /\ wt[t].key \in DOMAIN zsets') =>
            /\ ttl'[wt[t].key] = now + Max(wt[t].window, 60)
            /\ ttl'[wt[t].key] - now >= wt[t].window

\* When the clock advances, a key whose time has not come keeps its records,
\* and a key whose time has come is removed whole; none of its records is
\* within the window of a call that reads the clock from now on.
ExpiryRemoves ==
    now' # now =>
        \A k \in DOMAIN zsets :
            IF now' < ttl[k]
            THEN k \in DOMAIN zsets' /\ zsets'[k] = zsets[k] /\ ttl'[k] = ttl[k]
            ELSE /\ k \notin DOMAIN zsets'
                 /\ \A x \in zsets[k] : x <= now' - WindowOf(k)

\* When a key expires, none of its records is within the trailing window of
\* a call on the key that has read the clock and not yet run its pipeline.
ExpirySparesPending ==
    now' # now =>
        \A k \in DOMAIN zsets :
            now' >= ttl[k] =>
                \A t \in WindowTasks, x \in zsets[k] :
                    (wt[t].pc = "pipeline" /\ wt[t].key = k) =>
                        x <= wt[t].now - wt[t].window

\* C30 as stated: every pipeline sets the expiry of its key to
\* max(window, 60) seconds, not less than the window; the expiry of a key
\* discards no record that is inside the trailing window of a later call on
\* the key, whether that call reads the clock after the expiry or has read
\* it already; and a key not recorded to for max(window, 60) seconds is
\* removed whole, a key recorded to more recently is kept.
C30_ExpiryKeepsWindow ==
    /\ [](DOMAIN ttl = DOMAIN zsets /\ \A k \in DOMAIN zsets : now < ttl[k])
    /\ [][ExpirySet /\ ExpiryRemoves /\ ExpirySparesPending]_vars

\* C30 amended: the same for the calls that read the clock after the expiry;
\* a call that read the clock before the key expired and runs its pipeline
\* after may find a record of its trailing window gone.
C30_ExpiryKeepsWindowOfLaterReads ==
    /\ [](DOMAIN ttl = DOMAIN zsets /\ \A k \in DOMAIN zsets : now < ttl[k])
    /\ [][ExpirySet /\ ExpiryRemoves]_vars

\* Window 30: the join recorded at second 1 gave its key 60 seconds; at
\* second 61 the key is gone, and no other call was made.
C30_Witness ==
    /\ guilds[1].join_burst_window_seconds = 30
    /\ wt[1].pc = "done" /\ wt[1].key = joins_key(1)
    /\ wt[1].now = 1 /\ wt[1].count = 1
    /\ wt[2].pc = "idle"
    /\ now = 61
    /\ joins_key(1) \notin DOMAIN zsets

\* ---- claims about commands on a guild already in the state asked for ------
\* The commands of the run were enable, enable, disable, each issued when the
\* one before had returned; the disable has visited the channels.
EnabledTwiceThenDisabled ==
    /\ lk[1].pc = "done" /\ lk[1].guild = 1 /\ lk[1].enabled
    /\ lk[2].pc = "done" /\ lk[2].guild = 1 /\ lk[2].enabled /\ lk[2].alone
    /\ lk[3].pc = "incident" /\ lk[3].guild = 1 /\ ~lk[3].enabled /\ lk[3].alone

\* No edit of the three commands was refused, no administrator changed a
\* slowmode between the two enables (the second enable found every channel
\* at the lockdown slowmode), and the disable found the backup in the cache.
RelockUndisturbed ==
    /\ lk[1].refused = {} /\ lk[2].refused = {} /\ lk[3].refused = {}
    /\ \A c \in ChannelIds(1) : lk[2].previous_slowmodes[c] = lk[1].slowmode
    /\ lk[3].found

\* C31: after set_lockdown(True), set_lockdown(True), set_lockdown(False),
\* every text channel has the slowmode it had before the first enable (read
\* in the claim's favour: no edit refused, the backup not expired, no
\* slowmode changed by hand in between).
C31_SecondEnableKeepsBackup ==
    (EnabledTwiceThenDisabled /\ RelockUndisturbed) =>
        \A c \in ChannelIds(1) : channels[1][c] = InitialSlowmode(c)

\* ---- claims about the snapshot under concurrent writers --------------------
\* C33: with joins and invite events of guild 1 interleaved in every way and
\* the platform's use counts only growing, no step lowers the stored use
\* count of a code that stays in the snapshot.
C33_SnapshotNeverRolledBack ==
    [][\A c \in DOMAIN snapshot[1] \cap DOMAIN snapshot'[1] :
          snapshot'[1][c].uses >= snapshot[1][c].uses]_vars

\* ---- claims about unlocking a guild that is not locked ---------------------
\* Command t was issued when the commands before it had returned and guild 1
\* was not locked: no command came before it, or the last one disabled the
\* lockdown.
UnlockedAtCall(t) ==
    /\ lk[t].alone
    /\ (t = 1 \/ ~lk[t - 1].enabled)

\* C32: a set_lockdown(False) on a guild that is not locked changes the
\* slowmode of no text channel, whether or not a backup is in the cache.
C32_UnlockOfUnlockedKeepsSlowmodes ==
    [][\A t \in RelockTasks :
          (DisableSteps(t) /\ UnlockedAtCall(t)) => channels' = channels]_vars

\* ---- claims about the lock when a join fails --------------------------------
\* C34: the guild lock is released on every exit from the join's section,
\* also when a call inside it raises: the holder of a lock is always a task
\* inside the section (never one that returned or raised), every delivered
\* join eventually enters the section, also one that waits behind a holder
\* or arrives after a failed join, and every delivered join eventually
\* leaves it, by returning or by raising.
C34_LockReleasedOnEveryExit ==
    /\ [](\A g \in Guilds :
            lock_holder[g] # None =>
                /\ InSection(lock_holder[g])
                /\ lock_manager_get(jt[lock_holder[g]].guild) = g)
    /\ \A t \in {1, 2} : (jt[t].pc \in {"start", "waiting"}) ~> InSection(t)
    /\ \A t \in {1, 2} : (jt[t].pc # "idle") ~> (jt[t].pc \in {"done", "raised"})

\* The first join raised at guild.invites() (its user row is written, its
\* list of invites is empty); the second join, of another member, has gone
\* through the section and written its join row, and the lock is free.
C34_Witness ==
    /\ jt[1].pc = "raised" /\ jt[1].current = <<>> /\ jt[1].member \in users
    /\ jt[2].pc = "done" /\ jt[2].member # jt[1].member
    /\ Len(invite_joins) = 1 /\ invite_joins[1].member_id = jt[2].member
    /\ lock_holder[1] = None /\ lock_waiters[1] = <<>>

\* ---- claims about a join whose listing of the invites is refused ----------
\* C40: a refusal of guild.invites() during a join does not leave the join
\* handler, so that the checks after the tracker's part still run: no join
\* is ever in the position "raised", where the exception has left
\* on_member_join of the tracker and of the bot and nothing more runs for the
\* join.
C40_DenialStaysInsideHandler ==
    \A t \in JoinTasks : jt[t].pc # "raised"

\* ---- claims about the counters as sums over the events ---------------------
\* Every delivered join and leave has been processed to its end.
AllProcessed ==
    /\ \A t \in JoinTasks : jt[t].pc \in {"idle", "done"}
    /\ \A t \in LeaveTasks : lt[t].pc \in {"idle", "done"}

\* The join rows of guild g attributed to inviter u.
JoinsOf(g, u) ==
    {i \in 1..Len(invite_joins) :
        invite_joins[i].guild_id = g /\ invite_joins[i].inviter_id = u}

\* The leave rows of guild g whose inviter is u.
LeavesOf(g, u) ==
    {i \in 1..Len(invite_leaves) :
        invite_leaves[i].guild_id = g /\ invite_leaves[i].inviter_id = u}

\* C35: when every join and leave delivered so far is processed, for every
\* guild and user total_invites is the number of the guild's join events
\* attributed to the user, rejoins the number of those that are rejoins,
\* fake_invites the number of those that are fake, and leaves the number of
\* the guild's leave events whose inviter is the user (a user without row
\* counts 0 everywhere).
C35_CountersAreEventCounts ==
    AllProcessed =>
        \A g \in Guilds, u \in StatUsers :
            LET k == <<g, u>>
            IN /\ Counter(user_invite_stats, k, "total_invites") =
                     Cardinality(JoinsOf(g, u))
               /\ Counter(user_invite_stats, k, "rejoins") =
                     Cardinality({i \in JoinsOf(g, u) : invite_joins[i].is_rejoin})
               /\ Counter(user_invite_stats, k, "fake_invites") =
                     Cardinality({i \in JoinsOf(g, u) : invite_joins[i].is_fake})
               /\ Counter(user_invite_stats, k, "leaves") =
                     Cardinality(LeavesOf(g, u))

\* Member 31 (a young account) joined guild 1 through invite 1 of user 11,
\* left and joined again, and all three events are processed: user 11 has
\* total 2, fake 2, rejoins 1 and leaves 1.
C35_Witness ==
    /\ AllProcessed
    /\ Cardinality(JoinsOf(1, 11)) = 2 /\ Cardinality(LeavesOf(1, 11)) = 1
    /\ invite_joins[2].is_rejoin /\ ~invite_joins[1].is_rejoin
    /\ user_invite_stats[<<1, 11>>].total_invites = 2
    /\ user_invite_stats[<<1, 11>>].fake_invites = 2
    /\ user_invite_stats[<<1, 11>>].rejoins = 1
    /\ user_invite_stats[<<1, 11>>].leaves = 1

\* ---- claims about ensure_guild_row -----------------------------------------
\* C36: ensure_guild_row, called for a guild that has a row (at start-up, on
\* a join, after a rename), changes the name of the row and no setting: the
\* lockdown flag, the thresholds and windows, the minimum account age, the
\* auto-kick flag, the log channel and the premium columns stay as they
\* were.  In these runs nothing but ensure_guild_row writes the guilds table.
C36_EnsureKeepsSettings ==
    [][\A g \in Guilds :
          guilds[g].exists =>
              /\ guilds'[g] = [guilds[g] EXCEPT !.guild_name = guilds'[g].guild_name]
              /\ guilds'[g].lockdown_enabled = guilds[g].lockdown_enabled
              /\ guilds'[g].join_burst_count = guilds[g].join_burst_count
              /\ guilds'[g].join_burst_window_seconds = guilds[g].join_burst_window_seconds
              /\ guilds'[g].link_spam_threshold = guilds[g].link_spam_threshold
              /\ guilds'[g].link_spam_window_seconds = guilds[g].link_spam_window_seconds
              /\ guilds'[g].min_account_age_hours = guilds[g].min_account_age_hours
              /\ guilds'[g].auto_kick_young_accounts = guilds[g].auto_kick_young_accounts
              /\ guilds'[g].security_log_channel_id = guilds[g].security_log_channel_id
              /\ guilds'[g].is_premium = guilds[g].is_premium
              /\ guilds'[g].premium_until = guilds[g].premium_until
              /\ guilds'[g].premium_license_id = guilds[g].premium_license_id]_vars

\* Guild 1, locked down and premium: ensure_guild_row has run for it at
\* start-up, on a join and after its rename; the row has the new name and
\* its settings.
C36_Witness ==
    /\ guilds[1].guild_name = "Beta"
    /\ guilds[1].lockdown_enabled /\ guilds[1].is_premium
    /\ guilds[1].premium_license_id = 1 /\ guilds[1].premium_until = 5
    /\ guilds[1].join_burst_count = 3 /\ guilds[1].min_account_age_hours = 48
    /\ guilds[1].security_log_channel_id = 41
    /\ ready.pending = <<>>
    /\ jt[1].pc = "done" /\ jt[1].guild = 1

\* ---- claims about the premium gate and the expiry ---------------------------
\* The premium expiry stored for guild g at activation lies in the past.
Lapsed(g) ==
    /\ guilds[g].exists /\ guilds[g].is_premium
    /\ guilds[g].premium_until # None
    /\ guilds[g].premium_until < now

\* C37: once the stored premium expiry of a guild has passed, assert_premium
\* raises for it: a call of advanced_raid_prediction that reaches the gate
\* then fails with PremiumRequired, and a call of check_cross_server_blacklist
\* returns false without its lookup.
C37_GateClosesAtExpiry ==
    [][/\ \A t \in PredictionTasks :
            (rp[t].pc = "gate" /\ rp'[t].pc # "gate" /\ Lapsed(rp[t].guild)) =>
                rp'[t].pc = "raised"
       /\ \A t \in JoinTasks :
            (jt[t].pc = "blacklist_gate" /\ jt'[t].pc # "blacklist_gate"
             /\ Lapsed(jt[t].guild)) =>
                (jt'[t].pc = "handled" /\ ~jt'[t].blacklist_result)]_vars

\* C38: whenever activate_license returns true for guild g, in the resulting
\* state g is in the licence's activated list, the row of g has the premium
\* flag set with the licence's id and the licence's expiry, and one
\* premium_activated incident for g has been appended; and the activated
\* list never grows by a guild whose premium flag is not set by the same
\* commit (a guild without a row included).
C38_TrueMeansPremium ==
    [][\A c \in Calls :
        (act[c].pc = "intx" /\ act'[c].pc = "done") =>
            LET l == act[c].lic
                g == act[c].guild_id
            IN /\ act'[c].result =>
                    /\ InSeq(g, premium_licenses'[l].activated_guild_ids)
                    /\ guilds'[g].exists /\ guilds'[g].is_premium
                    /\ guilds'[g].premium_license_id = l
                    /\ guilds'[g].premium_until = premium_licenses'[l].expires_at
                    /\ Len(incidents') = Len(incidents) + 1
                    /\ incidents'[Len(incidents')].guild_id = g
                    /\ incidents'[Len(incidents')].incident_type = "premium_activated"
               /\ premium_licenses'[l].activated_guild_ids #
                        premium_licenses[l].activated_guild_ids
                  => (guilds'[g].exists /\ guilds'[g].is_premium)
      ]_vars

\* The high incidents invite_blocked_lockdown of guild g.
BlockedIncidents(g) ==
    {i \in 1..Len(incidents) :
        /\ incidents[i].guild_id = g
        /\ incidents[i].incident_type = "invite_blocked_lockdown"
        /\ incidents[i].severity = "high"}

\* C39: the handler of an invite-create event first adds the invite to the
\* snapshot and upserts its invites row, and only then reads the lockdown
\* flag.  When the flag is set it deletes the invite on the platform and
\* writes one high incident invite_blocked_lockdown, unless the platform
\* forbids the deletion: then the handler returns without raising and
\* without an incident.  When the flag is not set the handler returns and
\* the invite stays.  No other step of the handler touches the platform or
\* the incident log.
C39_LockedInviteIsRevoked ==
    [][\A t \in InviteTasks :
        (it[t].kind = "create" /\ it'[t].pc # it[t].pc) =>
            LET g == it[t].guild
                c == it[t].code
            IN /\ it[t].pc = "snap_write" =>
                    /\ c \in DOMAIN snapshot'[g]
                    /\ it'[t].pc = "row"
               /\ it[t].pc = "row" =>
                    /\ invites'[<<g, c>>].exists /\ ~invites'[<<g, c>>].deleted
                    /\ it'[t].pc = "is_lockdown"
               /\ it[t].pc = "is_lockdown" =>
                    /\ invites[<<g, c>>].exists
                    /\ it'[t].pc = IF guilds[g].exists /\ guilds[g].lockdown_enabled
                                   THEN "block" ELSE "done"
               /\ it[t].pc = "block" =>
                    \/ /\ it'[t].pc = "block_incident"
                       /\ c \notin DOMAIN platform'[g]
                    \/ /\ it'[t].pc = "done"
                       /\ platform' = platform
               /\ it[t].pc = "block_incident" =>
                    /\ it'[t].pc = "done"
                    /\ Len(incidents') = Len(incidents) + 1
                    /\ Len(incidents') \in BlockedIncidents(g)'
                    /\ c \notin DOMAIN platform[g]
               /\ it[t].pc # "block" => platform' = platform
               /\ it[t].pc # "block_incident" => incidents' = incidents
               /\ it'[t].pc # "raised"
      ]_vars

\* Invite 4 was created in guild 1 under lockdown: its handler has returned,
\* the invite is recorded and off the platform, and the one incident of the
\* log is its invite_blocked_lockdown.
C39_Witness ==
    /\ it[1].pc = "done" /\ it[1].kind = "create" /\ it[1].code = 4
    /\ guilds[1].lockdown_enabled
    /\ invites[<<1, 4>>].exists
    /\ 4 \notin DOMAIN platform[1]
    /\ BlockedIncidents(1) # {}
    /\ Cardinality(BlockedIncidents(1)) = 1

====
